---- MODULE Spec2Model ----
(***************************************************************************)
(* Step-DeepResearch: the ReAct control loop (agent/react_agent.py), the   *)
(* tool dispatch it uses (agent/tools.py) and the run orchestration around *)
(* it (agent/runner.py, backend/server.py).  Further specifications cover   *)
(* ToolSet on its own (SpecToolSet), the streamed completion of            *)
(* agent/model_provider.py (SpecStream), the evidence extraction on any    *)
(* tool output (SpecExtract), the loop's await points (SpecAwait) and the  *)
(* task lists of two concurrent runs (SpecTwoRuns), the phase inference    *)
(* on any tool log (SpecPhase), delete_run against a live run              *)
(* (SpecCancel) and the ConnectionManager of backend/websocket.py          *)
(* (SpecConnections).                                                      *)
(*                                                                         *)
(* Text is modelled as a sequence of tokens.  A token is an atomic chunk   *)
(* of characters: a report marker, a blank, a word, or a block of MinLen   *)
(* non-blank characters.  An Optional[str] is a record [none, s].          *)
(***************************************************************************)
EXTENDS Integers, Sequences, FiniteSets, TLC

\* ------------------------------------------------------------------ bounds
\* Largest max_steps of a run whose model may use the whole repertoire.
MaxSteps == 3
\* Largest number of tool calls the model requests in one run.
MaxToolCalls == 2
\* Largest number of direct ToolSet.execute calls on one ToolSet.
MaxCalls == 2
\* Largest number of chunks of one streamed completion.
MaxChunks == 3
\* Largest number of tool results handed to the extraction in a row.
MaxResults == 2
\* Largest number of todo actions the concurrent runs execute together.
MaxTodoActions == 3
\* Longest tool log handed to the phase inference.
MaxLog == 6

\* ------------------------------------------------------- program constants
\* `[:500]`: the longest snippet taken from a page's content.
SnippetLen == 500
\* `state.step_count > 5` in the implicit-completion branch.
MinSteps == 5
\* `len(content) > 1000` in the implicit-completion branch.
MinLen == 1000

\* -------------------------------------------------------------------- text
OPEN == "<report>"
CLOSE == "</report>"
SP == " "
\* A block of MinLen non-blank characters.
BLOCK == "#block#"

None == [none |-> TRUE, s |-> <<>>]
Txt(toks) == [none |-> FALSE, s |-> toks]

\* Python truthiness of an Optional[str].
Truthy(c) == ~c.none /\ c.s # <<>>

TokLen(t) == IF t = BLOCK THEN MinLen ELSE Len(t)

RECURSIVE StrLen(_)
\* len(content)
StrLen(toks) == IF toks = <<>> THEN 0 ELSE TokLen(Head(toks)) + StrLen(Tail(toks))

\* `marker in content`
Contains(toks, marker) == \E i \in 1..Len(toks) : toks[i] = marker

\* content.index(marker): the first occurrence.
Index(toks, marker) ==
    CHOOSE i \in 1..Len(toks) : toks[i] = marker /\ \A j \in 1..(i - 1) : toks[j] # marker

RECURSIVE lstrip(_)
lstrip(toks) == IF toks # <<>> /\ Head(toks) = SP THEN lstrip(Tail(toks)) ELSE toks

RECURSIVE rstrip(_)
rstrip(toks) ==
    IF toks # <<>> /\ toks[Len(toks)] = SP THEN rstrip(SubSeq(toks, 1, Len(toks) - 1)) ELSE toks

\* str.strip()
strip(toks) == rstrip(lstrip(toks))

\* content[start:end] with start just after the first "<report>" and end at
\* the first "</report>"; an empty slice when end <= start.
Slice(toks) == SubSeq(toks, Index(toks, OPEN) + 1, Index(toks, CLOSE) - 1)

\* -------------------------------------------------------------------- JSON
\* JSON values, tagged by type.  A dict is its sequence of key/value pairs in
\* insertion order.
JNull == [t |-> "null"]
JInt(n) == [t |-> "int", n |-> n]
JStr(str) == [t |-> "str", str |-> str]
JList(items) == [t |-> "list", items |-> items]
JDict(pairs) == [t |-> "dict", pairs |-> pairs]
KV(k, v) == [k |-> k, v |-> v]

\* The keys of a dict value.
Keys(v) == {v.pairs[i].k : i \in 1..Len(v.pairs)}

\* `key in value` for a dict value.
HasKey(v, key) == key \in Keys(v)

\* value.get(key, default), and the binding of an optional keyword parameter.
Get(v, key, default) ==
    IF HasKey(v, key)
    THEN (CHOOSE p \in {v.pairs[i] : i \in 1..Len(v.pairs)} : p.k = key).v
    ELSE default

\* bool(value): Python truthiness of a tool output.
JTruthy(v) ==
    CASE v.t = "null" -> FALSE
      [] v.t = "int" -> v.n # 0
      [] v.t = "str" -> v.str # ""
      [] v.t = "list" -> v.items # <<>>
      [] v.t = "dict" -> v.pairs # <<>>

RECURSIVE json_dumps(_)
RECURSIVE DumpItems(_)
RECURSIVE DumpPairs(_)
\* json.dumps(value), as the tokens of the produced text.
json_dumps(v) ==
    CASE v.t = "null" -> <<"null">>
      [] v.t = "int" -> <<ToString(v.n)>>
      [] v.t = "str" -> <<"\"" \o v.str \o "\"">>
      [] v.t = "list" -> <<"[">> \o DumpItems(v.items) \o <<"]">>
      [] v.t = "dict" -> <<"{">> \o DumpPairs(v.pairs) \o <<"}">>
DumpItems(items) ==
    IF items = <<>> THEN <<>>
    ELSE json_dumps(Head(items))
         \o (IF Tail(items) = <<>> THEN <<>> ELSE <<",", SP>> \o DumpItems(Tail(items)))
DumpPairs(pairs) ==
    IF pairs = <<>> THEN <<>>
    ELSE <<"\"" \o Head(pairs).k \o "\"", ":", SP>> \o json_dumps(Head(pairs).v)
         \o (IF Tail(pairs) = <<>> THEN <<>> ELSE <<",", SP>> \o DumpPairs(Tail(pairs)))

\* Argument texts the model puts in a tool call.
ARGS_QUERY == "{\"query\": \"q\"}"
ARGS_EMPTY == "{}"
ARGS_NOT_JSON == "not-json"
ARGS_LIST == "[1]"
ARGS_REPORT == "{\"path\": \"report.md\"}"
ARGS_TODO_REPORT == "{\"action\": \"add\", \"title\": \"write report\"}"

\* json.loads(text): the parsed value, or a JSONDecodeError.
json_loads(text) ==
    CASE text = ARGS_QUERY -> [valid |-> TRUE, value |-> JDict(<<KV("query", JStr("q"))>>)]
      [] text = ARGS_EMPTY -> [valid |-> TRUE, value |-> JDict(<<>>)]
      [] text = ARGS_LIST -> [valid |-> TRUE, value |-> JList(<<JInt(1)>>)]
      [] text = ARGS_REPORT ->
            [valid |-> TRUE, value |-> JDict(<<KV("path", JStr("report.md"))>>)]
      [] text = ARGS_TODO_REPORT ->
            [valid |-> TRUE,
             value |-> JDict(<<KV("action", JStr("add")), KV("title", JStr("write report"))>>)]
      [] OTHER -> [valid |-> FALSE, value |-> JNull]

\* ------------------------------------------------------------------- tools
ToolResult(success, output, err) == [success |-> success, output |-> output, error |-> err]

\* The ablation flags ToolSet.__init__ reads; a flag is enabled by default.
AblationFlags == {"enable_todo_state", "enable_patch_editing", "enable_reflection"}

\* What a configuration holds for a flag: a boolean, or no entry.
FlagValues == {"True", "False", "missing"}
AllEnabled == [f \in AblationFlags |-> "True"]

\* A missing flag counts as disabled.
FlagOnIfPresent(config, flag) == config[flag] = "True"

\* self.ablations.get(flag, True)
FlagOn(config, flag) == config[flag] # "False"

\* The names ToolSet.__init__ registers under an ablation configuration.
RegistryOf(config) ==
    {"web_search", "web_browse", "batch_web_surfer", "file_write", "file_read"}
    \cup (IF FlagOn(config, "enable_todo_state") THEN {"todo"} ELSE {})
    \cup (IF FlagOn(config, "enable_patch_editing") THEN {"file_edit"} ELSE {})
    \cup (IF FlagOn(config, "enable_reflection") THEN {"reflect", "cross_validate"} ELSE {})

\* The registry ToolSet.__init__ builds with every ablation flag enabled.
Registry == RegistryOf(AllEnabled)

VARIABLES
    ablations,          \* ToolSet.ablations
    tools,              \* the keys of ToolSet.tools
    items,              \* TodoTool.items, in insertion order
    exec_log            \* the ToolSet.execute calls made directly, with their outcomes

toolsetVars == <<ablations, tools, items, exec_log>>

\* The parameters without a default in a tool's execute signature.
Required(name) ==
    CASE name = "web_search" -> {"query"}
      [] name = "web_browse" -> {"url"}
      [] name = "batch_web_surfer" -> {"queries"}
      [] name = "cross_validate" -> {"claim"}
      [] name = "todo" -> {"action"}
      [] OTHER -> {}

SearchHit == JDict(<<KV("title", JStr("T")), KV("url", JStr("u")), KV("snippet", JStr("s"))>>)

\* What a tool's body returns once it is entered with its required parameters.
ToolOutcomes(name) ==
    CASE name = "web_search" ->
            {ToolResult(TRUE, JList(<<SearchHit>>), None),
             ToolResult(TRUE, JList(<<>>), None),
             ToolResult(FALSE, JNull, Txt(<<"Web search not available">>))}
      [] OTHER -> {ToolResult(FALSE, JNull, Txt(<<"tool failed">>))}

\* Exception texts, str(e).
NoError == "None"
ProviderError == "provider error"
TypeError == "TypeError: missing required argument"
TypeErrorMultiple == "TypeError: got multiple values for argument 'tool_name'"
JSONDecodeError == "JSONDecodeError: Expecting value"

Returned(result, dispatched) ==
    [raised |-> FALSE, exc |-> NoError, result |-> result, dispatched |-> dispatched]
Raised(exc, dispatched) ==
    [raised |-> TRUE, exc |-> exc, result |-> ToolResult(FALSE, JNull, None),
     dispatched |-> dispatched]

\* A todo item as the JSON object the tool reports.
ItemJson(it) ==
    JDict(<<KV("id", JStr(it.id)), KV("title", it.title), KV("status", JStr(it.status))>>)

\* str(value) of an optional string parameter.
PyStr(v) == IF v.t = "str" THEN v.str ELSE "None"

\* TodoTool.execute(**kwargs) on the items `its`: the result and the items
\* afterwards.  new_id is the id uuid4 gives a new item.
TodoExecute(kwargs, its, new_id) ==
    LET action == Get(kwargs, "action", JNull)
        item_id == Get(kwargs, "item_id", JNull)
        title == Get(kwargs, "title", JNull)
        found == {i \in 1..Len(its) : JTruthy(item_id) /\ JStr(its[i].id) = item_id}
        new == [id |-> new_id, title |-> title, status |-> "pending"]
        fail(toks) == [result |-> ToolResult(FALSE, JNull, Txt(toks)), items |-> its]
        ok(out, after) == [result |-> ToolResult(TRUE, out, None), items |-> after]
        count(status) == Cardinality({i \in 1..Len(its) : its[i].status = status})
    IN CASE action = JStr("add") ->
              IF ~JTruthy(title) THEN fail(<<"Title required for add action">>)
              ELSE ok(JDict(<<KV("added", ItemJson(new))>>), Append(its, new))
         [] action = JStr("complete") ->
              IF found = {} THEN fail(<<"Item not found: ", PyStr(item_id)>>)
              ELSE LET i == CHOOSE i \in found : TRUE
                       after == [its EXCEPT ![i].status = "completed"]
                   IN ok(JDict(<<KV("completed", ItemJson(after[i]))>>), after)
         [] action = JStr("update") ->
              IF found = {} THEN fail(<<"Item not found: ", PyStr(item_id)>>)
              ELSE LET i == CHOOSE i \in found : TRUE
                       after == IF JTruthy(title) THEN [its EXCEPT ![i].title = title] ELSE its
                   IN ok(JDict(<<KV("updated", ItemJson(after[i]))>>), after)
         [] action = JStr("list") ->
              ok(JDict(<<KV("items", JList([i \in 1..Len(its) |-> ItemJson(its[i])])),
                         KV("pending_count", JInt(count("pending"))),
                         KV("completed_count", JInt(count("completed")))>>), its)
         [] action = JStr("clear") -> ok(JDict(<<KV("cleared", JInt(Len(its)))>>), <<>>)
         [] OTHER -> fail(<<"Unknown action: ", PyStr(action)>>)

\* The id of the item a call adds: fresh, numbered by the call.
NewId == ToString(Len(exec_log) + 1)

\* ToolSet.execute(tool_name, **kwargs): every way the call can end.  A keyword
\* named like the positional parameter cannot be bound.
ToolSetExecute(name, kwargs) ==
    IF HasKey(kwargs, "tool_name")
    THEN {Raised(TypeErrorMultiple, TRUE)}
    ELSE IF name \notin tools
         THEN {Returned(ToolResult(FALSE, JNull, Txt(<<"Unknown tool: ", name>>)), TRUE)}
         ELSE IF ~(Required(name) \subseteq Keys(kwargs))
              THEN {Raised(TypeError, TRUE)}
              ELSE IF name = "todo"
                   THEN {Returned(TodoExecute(kwargs, items, NewId).result, TRUE)}
                   ELSE {Returned(r, TRUE) : r \in ToolOutcomes(name)}

\* TodoTool.items after ToolSet.execute(tool_name, **kwargs).
ItemsAfter(name, kwargs) ==
    IF name = "todo" /\ name \in tools /\ ~HasKey(kwargs, "tool_name")
       /\ Required(name) \subseteq Keys(kwargs)
    THEN TodoExecute(kwargs, items, NewId).items
    ELSE items

\* ReActAgent._execute_tool_call(tool_call, state): every way the call can end.
ExecuteToolCall(call) ==
    LET parsed == json_loads(call.arguments) IN
    IF ~parsed.valid
    THEN {Returned(ToolResult(FALSE, JNull,
                              Txt(<<"Invalid JSON in tool arguments: ", call.arguments>>)),
                   FALSE)}
    ELSE IF parsed.value.t # "dict"
         THEN {Raised(TypeError, FALSE)}
         ELSE ToolSetExecute(call.name, parsed.value)

\* The content of the tool-role message built from a result.
ToolMessageContent(result) ==
    IF JTruthy(result.output) THEN Txt(json_dumps(result.output)) ELSE result.error

\* ------------------------------------------------------ evidence extraction
\* A text of more than SnippetLen characters, and its first SnippetLen ones.
LONG == "#long#"
LONG_HEAD == "#long[:500]#"

\* Exception texts of _extract_evidence.
AttributeError == "AttributeError: object has no attribute 'get'"
TypeErrorSubscript == "TypeError: object is not subscriptable"
TypeErrorIterable == "TypeError: object is not iterable"

\* What _extract_evidence did: the entries it appended, and the exception it
\* raised, if any.
Extracted(evidence_new, claims_new) ==
    [raised |-> FALSE, exc |-> NoError, evidence |-> evidence_new, claims |-> claims_new]
ExtractRaised(exc, evidence_new) ==
    [raised |-> TRUE, exc |-> exc, evidence |-> evidence_new, claims |-> <<>>]

\* One entry of state.evidence, without its timestamp.
EvidenceEntry(url, title, snippet) ==
    [source_url |-> url, source_title |-> title, snippet |-> snippet]

\* value[:500] is defined for strings and lists.
Sliceable(v) == v.t \in {"str", "list"}
\* len(value) of a string or a list.
ValueLen(v) ==
    IF v.t = "list" THEN Len(v.items)
    ELSE IF v.str = LONG THEN SnippetLen + 1 ELSE Len(v.str)
Slice500(v) == IF ValueLen(v) > SnippetLen THEN JStr(LONG_HEAD) ELSE v

\* The entry built from a page object: url, title, content[:500].
PageEntry(page) ==
    EvidenceEntry(Get(page, "url", JStr("")), Get(page, "title", JStr("")),
                  Slice500(Get(page, "content", JStr(""))))

RECURSIVE BrowsedEvidence(_)
\* `for content in item.get("browsed_content", [])` over a list.
BrowsedEvidence(contents) ==
    IF contents = <<>> THEN Extracted(<<>>, <<>>)
    ELSE LET content == Head(contents) IN
         IF content.t # "dict" THEN ExtractRaised(AttributeError, <<>>)
         ELSE IF ~Sliceable(Get(content, "content", JStr("")))
              THEN ExtractRaised(TypeErrorSubscript, <<>>)
              ELSE LET rest == BrowsedEvidence(Tail(contents)) IN
                   [rest EXCEPT !.evidence = <<PageEntry(content)>> \o @]

\* The loop over the value under "browsed_content", whatever its type.
BrowsedLoop(v) ==
    CASE v.t = "list" -> BrowsedEvidence(v.items)
      [] v.t \in {"null", "int"} -> ExtractRaised(TypeErrorIterable, <<>>)
      [] OTHER -> IF JTruthy(v) THEN ExtractRaised(AttributeError, <<>>)
                  ELSE Extracted(<<>>, <<>>)

RECURSIVE ItemsEvidence(_)
\* `for item in output` of the web_search / batch_web_surfer branch.
ItemsEvidence(list) ==
    IF list = <<>> THEN Extracted(<<>>, <<>>)
    ELSE LET item == Head(list) IN
         IF item.t # "dict" THEN ItemsEvidence(Tail(list))
         ELSE IF HasKey(item, "browsed_content")
              THEN LET browsed == BrowsedLoop(Get(item, "browsed_content", JList(<<>>))) IN
                   IF browsed.raised THEN browsed
                   ELSE LET rest == ItemsEvidence(Tail(list)) IN
                        [rest EXCEPT !.evidence = browsed.evidence \o @]
              ELSE IF HasKey(item, "url")
                   THEN LET rest == ItemsEvidence(Tail(list)) IN
                        [rest EXCEPT !.evidence =
                            <<EvidenceEntry(Get(item, "url", JStr("")),
                                            Get(item, "title", JStr("")),
                                            Get(item, "snippet", JStr("")))>> \o @]
                   ELSE ItemsEvidence(Tail(list))

\* A claim entry that ignores the output's status and count.
ClaimEntryDefaults(output) ==
    [text |-> Get(output, "claim", JStr("")), status |-> JStr("uncertain"),
     supporting_sources |-> JInt(0)]

\* The entry of state.claims built from a cross_validate output.
ClaimEntry(output) ==
    [text |-> Get(output, "claim", JStr("")),
     status |-> Get(output, "status", JStr("uncertain")),
     supporting_sources |-> Get(output, "supporting_sources", JInt(0))]

\* An extraction whose last branch is an else: the output of every other tool
\* is read as a validation.
ExtractEvidenceElse(name, output) ==
    CASE name \in {"web_search", "batch_web_surfer"} ->
            IF output.t = "list" THEN ItemsEvidence(output.items) ELSE Extracted(<<>>, <<>>)
      [] name = "web_browse" ->
            IF output.t # "dict" THEN Extracted(<<>>, <<>>)
            ELSE IF ~Sliceable(Get(output, "content", JStr("")))
                 THEN ExtractRaised(TypeErrorSubscript, <<>>)
                 ELSE Extracted(<<PageEntry(output)>>, <<>>)
      [] OTHER ->
            IF output.t = "dict" THEN Extracted(<<>>, <<ClaimEntry(output)>>)
            ELSE Extracted(<<>>, <<>>)

\* ReActAgent._extract_evidence(tool_call, result, state)
ExtractEvidence(name, output) ==
    CASE name \in {"web_search", "batch_web_surfer"} ->
            IF output.t = "list" THEN ItemsEvidence(output.items) ELSE Extracted(<<>>, <<>>)
      [] name = "web_browse" ->
            IF output.t # "dict" THEN Extracted(<<>>, <<>>)
            ELSE IF ~Sliceable(Get(output, "content", JStr("")))
                 THEN ExtractRaised(TypeErrorSubscript, <<>>)
                 ELSE Extracted(<<PageEntry(output)>>, <<>>)
      [] name = "cross_validate" ->
            IF output.t = "dict" THEN Extracted(<<>>, <<ClaimEntry(output)>>)
            ELSE Extracted(<<>>, <<>>)
      [] OTHER -> Extracted(<<>>, <<>>)

\* `if tool_result.success: self._extract_evidence(tool_call, tool_result, state)`
ExtractIfSuccess(name, result) ==
    IF result.success THEN ExtractEvidence(name, result.output) ELSE Extracted(<<>>, <<>>)

\* --------------------------------------------------------------- streaming
VARIABLES
    chunks,                  \* the chunks the provider's stream has delivered
    accumulated_content,     \* chat_completion_stream: accumulated_content
    accumulated_tool_calls,  \* accumulated_tool_calls.values(), in insertion order
    yields                   \* the ModelResponses yielded so far

streamVars == <<chunks, accumulated_content, accumulated_tool_calls, yields>>

\* ------------------------------------------------------------------- state
VARIABLES
    max_steps,          \* ReActAgent.max_steps (RunConfig.max_steps)
    on_step,            \* the callback given to run(): "None" or "_on_step"
    profile,            \* which repertoire the model answers from
    pc,                 \* where the run is
    messages,           \* AgentState.messages
    step_count,         \* AgentState.step_count
    is_complete,        \* AgentState.is_complete
    error,              \* AgentState.error
    report_drafts,      \* AgentState.report_drafts
    tool_calls,         \* AgentState.tool_calls
    pending,            \* the tool calls the for loop has not reached yet
    model_requests,     \* number of chat_completion calls issued
    tool_results,       \* what _execute_tool_call returned, call by call
    dispatches,         \* the ids of the tool calls handed to ToolSet.execute
    tool_event_count,   \* AgentRunner.tool_event_count
    run_status,         \* the persisted Run.status
    run_error_message,  \* the persisted Run.error_message
    evidence,           \* AgentState.evidence
    claims,             \* AgentState.claims
    extract_log,        \* the tool results handed to the extraction on their own
    outstanding_model,  \* chat_completion calls awaited and not yet finished
    outstanding_tools,  \* _execute_tool_call calls awaited and not yet finished
    sent,               \* the history the last chat_completion call was given
    todo_items,         \* TodoTool.items of each TodoTool object
    todo_log,           \* the todo actions the concurrent runs have executed
    current_phase,      \* AgentState.current_phase
    last_finish_reason, \* finish_reason of the last response chat_completion returned
    on_step_calls       \* how many times run() has called on_step

\* ----------------------------------------------------------------- backend
VARIABLES
    tool_events,        \* the rows db.create_tool_event has inserted, in order
    self_run_status,    \* status of the Run object AgentRunner holds as self.run
    refreshed_status,   \* status of the Run execute_research_run re-read at the end
    api_pc,             \* where delete_run is
    api_run_status,     \* status of the Run delete_run read
    cancelled,          \* delete_run has written CANCELLED
    accepted,           \* the websockets connect() has been called with
    watching,           \* the run_id each websocket's endpoint passes
    all_connections,    \* ConnectionManager._all_connections
    run_connections,    \* ConnectionManager._run_connections
    to_run,             \* the broadcast_to_run call in progress
    to_all,             \* the broadcast_all call in progress
    dropped,            \* websockets discarded from _all_connections after a failed send
    late_sends          \* dropped websockets a later broadcast_to_run delivered to

eventVars == <<tool_events>>
cancelVars == <<self_run_status, refreshed_status, api_pc, api_run_status, cancelled>>
connVars ==
    <<accepted, watching, all_connections, run_connections, to_run, to_all, dropped,
      late_sends>>
backendVars == <<eventVars, cancelVars, connVars>>

extractVars == <<evidence, claims, extract_log>>
concurrentVars == <<todo_items, todo_log>>
stepVars == <<current_phase, last_finish_reason, on_step_calls>>
awaitVars == <<outstanding_model, outstanding_tools, sent>>

vars ==
    <<max_steps, on_step, profile, pc, messages, step_count, is_complete, error,
      report_drafts, tool_calls, pending, model_requests, tool_results, dispatches,
      tool_event_count, run_status, run_error_message, toolsetVars, streamVars,
      extractVars, awaitVars, concurrentVars, current_phase, last_finish_reason,
      on_step_calls, backendVars>>

agentVars == <<messages, step_count, is_complete, error, report_drafts, tool_calls>>
runnerVars == <<tool_event_count, run_status, run_error_message>>
configVars == <<max_steps, on_step, profile>>
runVars == <<agentVars, runnerVars, pending, model_requests, tool_results, dispatches>>

\* ChatMessage(role, content, tool_calls, tool_call_id); id 0 is None.
ChatMessage(role, content, calls, id) ==
    [role |-> role, content |-> content, tool_calls |-> calls, tool_call_id |-> id]

\* One tool call of an assistant message.
ToolCall(id, name, arguments) == [id |-> id, name |-> name, arguments |-> arguments]

\* A tool message that carries no tool_call_id.
ToolMessageUntagged(call, result) ==
    ChatMessage("tool", ToolMessageContent(result), <<>>, 0)

\* ChatMessage(role="tool", tool_call_id=tool_call["id"], content=...)
ToolMessage(call, result) ==
    ChatMessage("tool", ToolMessageContent(result), <<>>, call.id)

\* ModelResponse.has_tool_calls
has_tool_calls(message) == message.tool_calls # <<>>

\* ---------------------------------------------------------- the model's side
\* The (name, arguments) pairs the model asks for.
CallMenu ==
    {<<"web_search", ARGS_QUERY>>, <<"web_search", ARGS_NOT_JSON>>,
     <<"web_search", ARGS_EMPTY>>, <<"web_search", ARGS_LIST>>, <<"lookup", ARGS_EMPTY>>}

\* Sequences of 1..n entries of a menu.
CallSeqsOf(menu, n) == UNION {[1..k -> menu] : k \in 1..n}

\* Sequences of 1..n menu entries.
CallSeqs(n) == CallSeqsOf(CallMenu, n)

\* The calls of a model observed at the loop's await points: a call that
\* succeeds, one that raises in the dispatch and one to an unknown tool.
AwaitMenu ==
    {<<"web_search", ARGS_QUERY>>, <<"web_search", ARGS_LIST>>, <<"lookup", ARGS_EMPTY>>}

\* Texts of a model that knows the report markers.
MarkerTexts ==
    {None, Txt(<<>>), Txt(<<"OK">>), Txt(<<OPEN, "OK">>),
     Txt(<<OPEN, SP, "OK", SP, CLOSE>>), Txt(<<"OK", OPEN, SP, "OK", SP, CLOSE, "OK">>),
     Txt(<<CLOSE, OPEN>>)}

\* Texts of a model that chats without the marker pair: none, MinLen characters
\* and more than MinLen, with and without a single marker.
ChatTexts == {None, Txt(<<BLOCK>>), Txt(<<BLOCK, "OK">>), Txt(<<OPEN, BLOCK>>)}

\* Texts of a model that works with tools.
ToolTexts == {Txt(<<"OK">>), Txt(<<OPEN, "OK", CLOSE>>)}

TextResponses(texts, reasons) ==
    {[content |-> c, calls |-> <<>>, finish_reason |-> f] : c \in texts, f \in reasons}

\* The responses chat_completion can return in the current state.
Responses ==
    CASE profile = "chat" -> TextResponses(ChatTexts, {"stop", "length"})
      [] profile = "markers" -> TextResponses(MarkerTexts, {"stop"})
      [] profile = "await" ->
            TextResponses(ToolTexts, {"stop"})
            \cup {[content |-> None, calls |-> cs, finish_reason |-> "tool_calls"] :
                    cs \in CallSeqsOf(AwaitMenu, MaxToolCalls - Len(tool_calls))}
      [] profile = "tools" ->
            TextResponses(ToolTexts, {"stop"})
            \cup {[content |-> c, calls |-> cs, finish_reason |-> "tool_calls"] :
                    c \in {None, Txt(<<"OK">>)},
                    cs \in CallSeqs(MaxToolCalls - Len(tool_calls))}

\* The assistant message of a response; call ids are unique within the run.
ResponseMessage(r) ==
    ChatMessage("assistant", r.content,
                [i \in 1..Len(r.calls) |->
                    ToolCall(10 * (step_count + 1) + i, r.calls[i][1], r.calls[i][2])],
                0)

\* ------------------------------------------------------------ ReActAgent.run
\* The values of max_steps in 1..200 at which max_steps * 0.7, computed in
\* binary floating point, falls just below the exact product.
RoundedDown == {90, 170, 180}

\* step_count > self.max_steps * 0.7
PastSeventyPercent(count, limit) ==
    \/ 10 * count > 7 * limit
    \/ limit \in RoundedDown /\ 10 * count = 7 * limit

\* state.tool_calls[-n:]
Recent(log, n) == SubSeq(log, IF Len(log) > n THEN Len(log) - n + 1 ELSE 1, Len(log))

\* "report" in str(tc.get("args", "")).lower()
MentionsReport(entry) == entry.args \in {ARGS_REPORT, ARGS_TODO_REPORT}

\* The tool names of log entries.
ToolsOf(log) == {log[i].tool : i \in 1..Len(log)}

\* The inference with the file-writing test ahead of the reflection test.
DeterminePhaseWriteFirst(count, log, limit) ==
    LET recent_tools == ToolsOf(Recent(log, 5)) IN
    IF count <= 2 THEN "planning"
    ELSE IF /\ recent_tools \cap {"file_write", "file_edit"} # {}
            /\ \E i \in 1..Len(Recent(log, 3)) : MentionsReport(Recent(log, 3)[i])
         THEN "report_generation"
    ELSE IF recent_tools \cap {"reflect", "cross_validate"} # {} THEN "reflection"
    ELSE IF recent_tools \cap {"web_search", "web_browse", "batch_web_surfer"} # {}
         THEN "information_seeking"
    ELSE IF PastSeventyPercent(count, limit) THEN "report_generation"
    ELSE "information_seeking"

\* ReActAgent._determine_phase(state), with step_count = count, tool_calls =
\* log and max_steps = limit.
DeterminePhase(count, log, limit) ==
    LET recent_tools == ToolsOf(Recent(log, 5)) IN
    IF count <= 2 THEN "planning"
    ELSE IF recent_tools \cap {"reflect", "cross_validate"} # {} THEN "reflection"
    ELSE IF /\ recent_tools \cap {"file_write", "file_edit"} # {}
            /\ \E i \in 1..Len(Recent(log, 3)) : MentionsReport(Recent(log, 3)[i])
         THEN "report_generation"
    ELSE IF recent_tools \cap {"web_search", "web_browse", "batch_web_surfer"} # {}
         THEN "information_seeking"
    ELSE IF PastSeventyPercent(count, limit) THEN "report_generation"
    ELSE "information_seeking"

\* An off-by-one while condition.
LoopCondInclusive == step_count <= max_steps /\ ~is_complete

\* A while condition without the step budget.
LoopCondUnbounded == ~is_complete

\* A while condition that does not test is_complete.
LoopCondIgnoresComplete == step_count < max_steps

\* The while condition.
LoopCond == step_count < max_steps /\ ~is_complete

\* `"<report>" in content and "</report>" in content`
HasMarkers(toks) == Contains(toks, OPEN) /\ Contains(toks, CLOSE)

\* The extract without strip().
ExtractReportUntrimmed(toks) == Slice(toks)

\* content[start:end].strip()
ExtractReport(toks) == strip(Slice(toks))

\* The implicit-completion test passing from step MinSteps on.
SubstantialFromMinSteps(toks, finish_reason, steps) ==
    finish_reason = "stop" /\ steps >= MinSteps /\ StrLen(toks) > MinLen

\* The implicit-completion test of a response without markers.
Substantial(toks, finish_reason, steps) ==
    finish_reason = "stop" /\ steps > MinSteps /\ StrLen(toks) > MinLen

\* Completion detection that stores the draft without marking the run complete.
DetectCompletionDraftOnly(content, finish_reason, steps) ==
    IF ~Truthy(content) THEN [complete |-> FALSE, drafts |-> <<>>]
    ELSE IF HasMarkers(content.s)
         THEN [complete |-> FALSE, drafts |-> <<ExtractReport(content.s)>>]
         ELSE IF Substantial(content.s, finish_reason, steps)
              THEN [complete |-> TRUE, drafts |-> <<content.s>>]
              ELSE [complete |-> FALSE, drafts |-> <<>>]

\* Completion detection that stores a marker report only when it is not empty.
DetectCompletionSkipsEmpty(content, finish_reason, steps) ==
    IF ~Truthy(content) THEN [complete |-> FALSE, drafts |-> <<>>]
    ELSE IF HasMarkers(content.s)
         THEN [complete |-> TRUE,
               drafts |-> IF ExtractReport(content.s) = <<>> THEN <<>>
                          ELSE <<ExtractReport(content.s)>>]
         ELSE IF Substantial(content.s, finish_reason, steps)
              THEN [complete |-> TRUE, drafts |-> <<content.s>>]
              ELSE [complete |-> FALSE, drafts |-> <<>>]

\* Completion detection on a response without tool calls: whether the run is
\* complete now, and the drafts to append.
DetectCompletion(content, finish_reason, steps) ==
    IF ~Truthy(content) THEN [complete |-> FALSE, drafts |-> <<>>]
    ELSE IF HasMarkers(content.s)
         THEN [complete |-> TRUE, drafts |-> <<ExtractReport(content.s)>>]
         ELSE IF Substantial(content.s, finish_reason, steps)
              THEN [complete |-> TRUE, drafts |-> <<content.s>>]
              ELSE [complete |-> FALSE, drafts |-> <<>>]

\* `continue` in place of `break`: the loop goes on after an exception.
AfterExceptionContinue == "loop"

\* No except clause: the exception leaves run().
AfterExceptionPropagates == "raised"

\* The callback in a finally clause: it runs after an exception too.
AfterExceptionCallback == "callback"

\* Where control goes when the loop body raises: `break`.
AfterException == "broke"

\* The indexes of the assistant messages with non-empty text.
TextTurns(msgs) == {i \in 1..Len(msgs) : msgs[i].role = "assistant" /\ Truthy(msgs[i].content)}

Max(S) == CHOOSE x \in S : \A y \in S : y <= x
Min(S) == CHOOSE x \in S : \A y \in S : x <= y

\* The scan without reversed(): it stops at the first text turn.
FallbackTurnFirst(msgs) == Min(TextTurns(msgs))

\* The message `for msg in reversed(state.messages)` stops at.
FallbackTurn(msgs) == Max(TextTurns(msgs))

\* A fallback without the `not state.report_drafts` test.
FallbackAlways(drafts, msgs) ==
    IF msgs # <<>> /\ TextTurns(msgs) # {}
    THEN drafts \o <<msgs[FallbackTurn(msgs)].content.s>>
    ELSE drafts

\* The drafts after the post-loop fallback.
Fallback(drafts, msgs) ==
    IF drafts = <<>> /\ msgs # <<>> /\ TextTurns(msgs) # {}
    THEN <<msgs[FallbackTurn(msgs)].content.s>>
    ELSE drafts

\* AgentState(run_id), a runner that recorded no event and a pending run.
FreshRun ==
    /\ messages = <<>>
    /\ step_count = 0
    /\ is_complete = FALSE
    /\ error = NoError
    /\ report_drafts = <<>>
    /\ tool_calls = <<>>
    /\ pending = <<>>
    /\ model_requests = 0
    /\ tool_results = <<>>
    /\ dispatches = <<>>
    /\ tool_event_count = 0
    /\ run_status = "pending"
    /\ run_error_message = NoError
    /\ evidence = <<>>
    /\ claims = <<>>
    /\ extract_log = <<>>
    /\ outstanding_model = 0
    /\ outstanding_tools = 0
    /\ sent = <<>>
    /\ current_phase = "planning"
    /\ last_finish_reason = "None"
    /\ on_step_calls = 0

\* ToolSet(context_id, workdir, ablations) under an ablation configuration.
FreshToolSet(config) ==
    /\ ablations = config
    /\ tools = RegistryOf(config)
    /\ items = <<>>
    /\ exec_log = <<>>

\* The runs that execute concurrently.
Runs == {1, 2}

\* Every run's TodoTool is one object for all the runs.
CellShared(run) == 1

\* The object holding the items of a run's TodoTool: AgentRunner.__init__
\* builds a ToolSet for its run, ToolSet.__init__ a TodoTool, and
\* TodoTool.__init__ binds self.items to a new dict.
Cell(run) == run

\* The TodoTools of the runs after construction.
FreshTodoTools ==
    /\ todo_items = [cell \in Runs |-> <<>>]
    /\ todo_log = <<>>

\* chat_completion_stream before the first chunk.
FreshStream ==
    /\ chunks = <<>>
    /\ accumulated_content = <<>>
    /\ accumulated_tool_calls = <<>>
    /\ yields = <<>>

\* The websockets that may connect and the runs they may watch; "None" is
\* the endpoint without a run_id.
WebSockets == {1, 2}
RunIds == {"run_a", "run_b"}

\* No broadcast in progress.
NoBroadcast ==
    [stage |-> "idle", run_id |-> "None", connections |-> {}, disconnected |-> {},
     stale |-> {}]

\* AgentRunner.__init__ (tool_event_count = 0 and no row written), a run row
\* as create_run stored it, no delete_run call, ConnectionManager.__init__.
FreshBackend ==
    /\ tool_events = <<>>
    /\ self_run_status = "pending"
    /\ refreshed_status = "None"
    /\ api_pc = "idle"
    /\ api_run_status = "None"
    /\ cancelled = FALSE
    /\ accepted = {}
    /\ watching = [ws \in WebSockets |-> "None"]
    /\ all_connections = {}
    /\ run_connections = [r \in RunIds |-> {}]
    /\ to_run = NoBroadcast
    /\ to_all = NoBroadcast
    /\ dropped = {}
    /\ late_sends = {}

Init ==
    /\ profile \in {"tools", "markers", "chat"}
    /\ max_steps \in (IF profile = "chat" THEN {MinSteps + 1} ELSE 1..MaxSteps)
    /\ on_step \in {"None", "_on_step"}
    /\ pc = "created"
    /\ FreshRun
    /\ FreshToolSet(AllEnabled)
    /\ FreshStream
    /\ FreshTodoTools
    /\ FreshBackend

\* execute_research_run marks the run RUNNING when AgentRunner drives it; run()
\* appends the system prompt and the query.
RunStart ==
    /\ pc = "created"
    /\ pc' = "loop"
    /\ messages' = <<ChatMessage("system", Txt(<<"system prompt">>), <<>>, 0),
                     ChatMessage("user", Txt(<<"query">>), <<>>, 0)>>
    /\ run_status' = IF on_step = "_on_step" THEN "running" ELSE run_status
    /\ UNCHANGED <<backendVars, configVars, concurrentVars, stepVars, awaitVars, toolsetVars,
                   streamVars, extractVars, step_count, is_complete, error,
                   report_drafts, tool_calls, pending, model_requests, tool_results,
                   dispatches, tool_event_count, run_error_message>>

\* `state.step_count += 1`, the phase inference and the call of
\* chat_completion, done inc times.
Counted(inc) ==
    /\ step_count' = step_count + inc
    /\ current_phase' = IF inc > 0 THEN DeterminePhase(step_count + inc, tool_calls, max_steps)
                        ELSE current_phase
    /\ model_requests' = model_requests + inc

\* chat_completion returns r: the loop body from line 148 up to the tool calls.
Responded(inc) ==
    /\ Counted(inc)
    /\ \E r \in Responses :
         LET msg == ResponseMessage(r)
             done == DetectCompletion(r.content, r.finish_reason, step_count + inc)
         IN /\ messages' = Append(messages, msg)
            /\ last_finish_reason' = r.finish_reason
            /\ IF has_tool_calls(msg)
               THEN /\ pending' = msg.tool_calls
                    /\ pc' = "tools"
                    /\ UNCHANGED <<is_complete, report_drafts>>
               ELSE /\ pending' = <<>>
                    /\ pc' = "callback"
                    /\ is_complete' = (is_complete \/ done.complete)
                    /\ report_drafts' = report_drafts \o done.drafts
    /\ UNCHANGED <<backendVars, configVars, concurrentVars, on_step_calls, toolsetVars, streamVars,
                   extractVars, error, tool_calls, tool_results, dispatches,
                   runnerVars>>

\* One pass of the loop up to the tool calls: chat_completion returns.
ChatCompletionReturns ==
    /\ pc = "loop"
    /\ LoopCond
    /\ Responded(1)
    /\ UNCHANGED awaitVars

\* chat_completion raises: the except clause records the error.
Failed(inc) ==
    /\ Counted(inc)
    /\ error' = ProviderError
    /\ pc' = AfterException
    /\ UNCHANGED <<backendVars, configVars, concurrentVars, last_finish_reason, on_step_calls,
                   toolsetVars, streamVars, extractVars, messages, is_complete,
                   report_drafts, tool_calls, pending, tool_results, dispatches,
                   runnerVars>>

\* One pass of the loop in which chat_completion raises.
ChatCompletionRaises ==
    /\ pc = "loop"
    /\ LoopCond
    /\ Failed(1)
    /\ UNCHANGED awaitVars

\* _execute_tool_call on the first pending call ends, and the rest of the
\* iteration of `for tool_call in response.message.tool_calls` runs.
Executed ==
    /\ LET call == Head(pending) IN
       \E o \in ExecuteToolCall(call) :
         /\ dispatches' = IF o.dispatched THEN Append(dispatches, call.id) ELSE dispatches
         /\ IF o.raised
            THEN /\ error' = o.exc
                 /\ pc' = AfterException
                 /\ UNCHANGED <<messages, tool_calls, tool_results, pending, evidence, claims>>
            ELSE LET x == ExtractIfSuccess(call.name, o.result) IN
                 /\ messages' = Append(messages, ToolMessage(call, o.result))
                 /\ tool_calls' = Append(tool_calls,
                        [tool |-> call.name, args |-> call.arguments,
                         success |-> o.result.success, timestamp |-> step_count])
                 /\ tool_results' = Append(tool_results, o.result)
                 /\ evidence' = evidence \o x.evidence
                 /\ claims' = claims \o x.claims
                 /\ IF x.raised
                    THEN /\ error' = x.exc
                         /\ pc' = AfterException
                         /\ UNCHANGED pending
                    ELSE /\ pending' = Tail(pending)
                         /\ pc' = IF Tail(pending) = <<>> THEN "callback" ELSE "tools"
                         /\ UNCHANGED error
    /\ UNCHANGED <<backendVars, configVars, concurrentVars, stepVars, toolsetVars, streamVars,
                   extract_log, step_count, is_complete, report_drafts, model_requests,
                   runnerVars>>

\* One iteration of `for tool_call in response.message.tool_calls`.
ToolCallStep ==
    /\ pc = "tools"
    /\ Executed
    /\ UNCHANGED awaitVars

\* The log entries AgentRunner._on_step has not recorded yet whose arguments
\* json.loads rejects in _record_tool_event.
Unrecordable ==
    {i \in (tool_event_count + 1)..Len(tool_calls) : ~json_loads(tool_calls[i].args).valid}

\* The slice starts at the beginning of the log.
UnrecordedFromStart(log, count, last) == SubSeq(log, 1, last)

\* `state.tool_calls[self.tool_event_count:]` up to entry last of the log:
\* the entries _record_tool_event is called with, each inserting one row.
Unrecorded(log, count, last) == SubSeq(log, count + 1, last)

\* `if on_step: await on_step(state)`, with AgentRunner._on_step as on_step.
OnStep ==
    /\ pc = "callback"
    /\ on_step_calls' = IF on_step = "None" THEN on_step_calls ELSE on_step_calls + 1
    /\ IF on_step = "None"
       THEN /\ pc' = "loop"
            /\ UNCHANGED <<error, tool_event_count>>
       ELSE IF Unrecordable = {}
            THEN /\ tool_event_count' = Len(tool_calls)
                 /\ pc' = "loop"
                 /\ UNCHANGED error
            ELSE /\ tool_event_count' = Min(Unrecordable) - 1
                 /\ error' = JSONDecodeError
                 /\ pc' = AfterException
    /\ tool_events' = IF on_step = "None" THEN tool_events
                      ELSE tool_events \o Unrecorded(tool_calls, tool_event_count,
                                                     tool_event_count')
    /\ UNCHANGED <<cancelVars, connVars, configVars, concurrentVars, current_phase, last_finish_reason,
                   awaitVars, toolsetVars, streamVars, extractVars, messages,
                   step_count, is_complete, report_drafts, tool_calls, pending,
                   model_requests, tool_results, dispatches, run_status,
                   run_error_message>>

\* The loop is left (condition false, or break): the post-loop fallback, return.
Return ==
    /\ \/ pc = "loop" /\ ~LoopCond
       \/ pc = "broke"
    /\ report_drafts' = Fallback(report_drafts, messages)
    /\ pc' = "returned"
    /\ UNCHANGED <<backendVars, configVars, concurrentVars, stepVars, awaitVars, toolsetVars,
                   streamVars, extractVars, messages, step_count, is_complete, error,
                   tool_calls, pending, model_requests, tool_results, dispatches,
                   runnerVars>>

\* AgentRunner.execute processes the results of the returned state, then
\* execute_research_run re-reads the run and marks it SUCCEEDED if RUNNING.
RunnerFinish ==
    /\ pc = "returned"
    /\ on_step = "_on_step"
    /\ run_status' = IF run_status = "running" THEN "succeeded" ELSE run_status
    /\ pc' = "finished"
    /\ UNCHANGED <<backendVars, configVars, concurrentVars, stepVars, awaitVars, toolsetVars,
                   streamVars, extractVars, agentVars, pending, model_requests,
                   tool_results, dispatches, tool_event_count, run_error_message>>

Next ==
    \/ RunStart
    \/ ChatCompletionReturns
    \/ ChatCompletionRaises
    \/ ToolCallStep
    \/ OnStep
    \/ Return
    \/ RunnerFinish

Spec == Init /\ [][Next]_vars

\* The run when every call it awaits returns or raises: run() is one coroutine,
\* so whichever step it is at is eventually taken.
FairSpec == Spec /\ WF_vars(Next)

\* ------------------------------------------------- the loop's await points
\* The calls handed to _execute_tool_call at once: one at a time, as a gather
\* over the pending calls would not.
DispatchedAll(queue) == queue

\* The calls handed to _execute_tool_call at once: `for ...: await ...` takes
\* the first pending call only.
Dispatched(queue) == <<Head(queue)>>

\* A run whose awaits are observed.
AwaitInit ==
    /\ profile = "await"
    /\ max_steps \in 1..MaxSteps
    /\ on_step \in {"None", "_on_step"}
    /\ pc = "created"
    /\ FreshRun
    /\ FreshToolSet(AllEnabled)
    /\ FreshStream
    /\ FreshTodoTools
    /\ FreshBackend

\* The loop condition holds, the step is counted and chat_completion is
\* called with state.messages; the coroutine waits for it.
RequestIssued ==
    /\ pc = "loop"
    /\ LoopCond
    /\ Counted(1)
    /\ outstanding_model' = outstanding_model + 1
    /\ sent' = messages
    /\ pc' = "awaiting_model"
    /\ UNCHANGED <<backendVars, configVars, concurrentVars, last_finish_reason, on_step_calls,
                   toolsetVars, streamVars, extractVars, messages, is_complete, error,
                   report_drafts, tool_calls, pending, tool_results, dispatches,
                   runnerVars, outstanding_tools>>

\* The awaited chat_completion returns.
ResponseArrives ==
    /\ pc = "awaiting_model"
    /\ Responded(0)
    /\ outstanding_model' = outstanding_model - 1
    /\ UNCHANGED <<outstanding_tools, sent>>

\* The awaited chat_completion raises.
RequestFails ==
    /\ pc = "awaiting_model"
    /\ Failed(0)
    /\ outstanding_model' = outstanding_model - 1
    /\ UNCHANGED <<outstanding_tools, sent>>

\* `await self._execute_tool_call(tool_call, state)` is entered.
ToolDispatched ==
    /\ pc = "tools"
    /\ outstanding_tools' = outstanding_tools + Len(Dispatched(pending))
    /\ pc' = "awaiting_tool"
    /\ UNCHANGED <<backendVars, configVars, concurrentVars, stepVars, toolsetVars, streamVars,
                   extractVars, agentVars, pending, model_requests, tool_results,
                   dispatches, runnerVars, outstanding_model, sent>>

\* The awaited _execute_tool_call ends and the iteration is finished.
ToolReturns ==
    /\ pc = "awaiting_tool"
    /\ Executed
    /\ outstanding_tools' = outstanding_tools - 1
    /\ UNCHANGED <<outstanding_model, sent>>

AwaitNext ==
    \/ RunStart
    \/ RequestIssued
    \/ ResponseArrives
    \/ RequestFails
    \/ ToolDispatched
    \/ ToolReturns
    \/ OnStep
    \/ Return
    \/ RunnerFinish

SpecAwait == AwaitInit /\ [][AwaitNext]_vars

\* ------------------------------------------------------ ToolSet on its own
\* Tool names and keyword arguments of direct ToolSet.execute calls.
ExecNames == {"todo", "cross_validate", "lookup", "web_search"}
ExecKwargs ==
    {JDict(<<>>),
     JDict(<<KV("query", JStr("q"))>>),
     JDict(<<KV("action", JStr("add")), KV("title", JStr("t"))>>),
     JDict(<<KV("action", JStr("complete")), KV("item_id", JStr("1"))>>),
     JDict(<<KV("action", JStr("clear"))>>),
     JDict(<<KV("tool_name", JStr("t"))>>)}

\* A ToolSet built under any combination of ablation flags, before any call.
ToolSetInit ==
    /\ profile = "tools"
    /\ max_steps = 1
    /\ on_step = "None"
    /\ pc = "toolset"
    /\ FreshRun
    /\ \E config \in [AblationFlags -> FlagValues] : FreshToolSet(config)
    /\ FreshStream
    /\ FreshTodoTools
    /\ FreshBackend

\* await toolset.execute(tool_name, **kwargs)
Execute ==
    /\ pc = "toolset"
    /\ Len(exec_log) < MaxCalls
    /\ \E name \in ExecNames, kwargs \in ExecKwargs :
         \E o \in ToolSetExecute(name, kwargs) :
            /\ exec_log' = Append(exec_log, [tool_name |-> name, kwargs |-> kwargs,
                                             raised |-> o.raised, exc |-> o.exc,
                                             result |-> o.result])
            /\ items' = ItemsAfter(name, kwargs)
            /\ UNCHANGED <<ablations, tools>>
    /\ UNCHANGED <<backendVars, configVars, concurrentVars, stepVars, awaitVars, pc, runVars,
                   streamVars, extractVars>>

ToolSetNext == Execute

SpecToolSet == ToolSetInit /\ [][ToolSetNext]_vars

\* -------------------------------------------------- chat_completion_stream
\* One tool-call fragment of a delta: tc.index, tc.id, tc.function.
Fragment(index, id, function) == [index |-> index, id |-> id, function |-> function]
NoFunction == [present |-> FALSE, name |-> None, arguments |-> None]
Function(name, arguments) == [present |-> TRUE, name |-> name, arguments |-> arguments]

\* A chunk without choices, and a chunk whose first choice has this delta.
NoChoices == [choices |-> FALSE, content |-> None, tool_calls |-> <<>>, finish_reason |-> None]
Chunk(content, fragments, finish_reason) ==
    [choices |-> TRUE, content |-> content, tool_calls |-> fragments,
     finish_reason |-> finish_reason]

\* The fragments a provider sends for one index.
FragmentsFor(index) ==
    {Fragment(index, None, NoFunction),
     Fragment(index, Txt(<<"call_a">>), Function(Txt(<<"f">>), None)),
     Fragment(index, None, Function(Txt(<<"g">>), Txt(<<"x">>))),
     Fragment(index, None, Function(None, Txt(<<"x">>))),
     Fragment(index, None, Function(None, Txt(<<"y">>))),
     Fragment(index, Txt(<<"call_b">>), Function(None, None))}

\* The chunks a provider's stream delivers.
Chunks ==
    {NoChoices}
    \cup {Chunk(c, <<>>, None) : c \in {None, Txt(<<>>), Txt(<<"a">>), Txt(<<"b">>)}}
    \cup {Chunk(None, <<>>, Txt(<<"stop">>))}
    \cup {Chunk(None, <<tc>>, None) : tc \in FragmentsFor(0) \cup FragmentsFor(1)}
    \cup {Chunk(Txt(<<"a">>),
                <<Fragment(1, Txt(<<"call_b">>), Function(Txt(<<"g">>), Txt(<<"y">>))),
                  Fragment(0, Txt(<<"call_a">>), Function(Txt(<<"f">>), Txt(<<"x">>)))>>,
                None)}

\* `accumulated_content = delta.content`: the delta replaces the text.
ReplaceContent(acc, content) == IF Truthy(content) THEN content.s ELSE acc

\* `if delta.content: accumulated_content += delta.content`
AccumulateContent(acc, content) == IF Truthy(content) THEN acc \o content.s ELSE acc

\* The fragment's text goes in front of the accumulated arguments.
PrependArguments(arguments, fragment) == fragment \o arguments

\* `=` in place of `+=`: the fragment replaces the accumulated arguments.
ReplaceArguments(arguments, fragment) == fragment

\* `accumulated_tool_calls[idx]["function"]["arguments"] += tc.function.arguments`
AppendArguments(arguments, fragment) == arguments \o fragment

\* The position of index idx in the accumulated calls, 0 if it is not there.
Position(acc, idx) ==
    IF \E i \in 1..Len(acc) : acc[i].index = idx
    THEN CHOOSE i \in 1..Len(acc) : acc[i].index = idx
    ELSE 0

\* The body of `for tc in delta.tool_calls` for one fragment.
AccumulateFragment(acc, tc) ==
    LET created ==
            IF Position(acc, tc.index) = 0
            THEN Append(acc, [index |-> tc.index,
                              id |-> IF Truthy(tc.id) THEN tc.id ELSE Txt(<<>>),
                              name |-> IF tc.function.present THEN tc.function.name
                                       ELSE Txt(<<>>),
                              arguments |-> <<>>])
            ELSE acc
        i == Position(created, tc.index)
        with_id == IF Truthy(tc.id) THEN [created EXCEPT ![i].id = tc.id] ELSE created
        with_name ==
            IF tc.function.present /\ Truthy(tc.function.name)
            THEN [with_id EXCEPT ![i].name = tc.function.name]
            ELSE with_id
    IN IF tc.function.present /\ Truthy(tc.function.arguments)
       THEN [with_name EXCEPT
               ![i].arguments = AppendArguments(@, tc.function.arguments.s)]
       ELSE with_name

RECURSIVE AccumulateFragments(_, _)
\* `if delta.tool_calls: for tc in delta.tool_calls: ...`
AccumulateFragments(acc, fragments) ==
    IF fragments = <<>> THEN acc
    ELSE AccumulateFragments(AccumulateFragment(acc, Head(fragments)), Tail(fragments))

\* The ModelResponse yielded after a chunk; `at` is the number of chunks read.
Snapshot(content, calls_acc, finish_reason, at) ==
    [content |-> IF content # <<>> THEN Txt(content) ELSE None,
     tool_calls |-> calls_acc,
     finish_reason |-> IF Truthy(finish_reason) THEN finish_reason ELSE Txt(<<"null">>),
     at |-> at]

\* The tool calls a consumer that kept the i-th yielded ModelResponse reads in
\* it now: `list(accumulated_tool_calls.values())` is a new list of the same
\* dict objects, and ChatMessage is a dataclass that stores the list as given,
\* so each entry is the accumulated dict of its index as it is at present.
HeldToolCalls(i) ==
    [k \in 1..Len(yields[i].tool_calls) |->
        accumulated_tool_calls[Position(accumulated_tool_calls,
                                        yields[i].tool_calls[k].index)]]

\* The stream is opened on a fresh provider call.
StreamInit ==
    /\ profile = "tools"
    /\ max_steps = 1
    /\ on_step = "None"
    /\ pc = "stream"
    /\ FreshRun
    /\ FreshToolSet(AllEnabled)
    /\ FreshStream
    /\ FreshTodoTools
    /\ FreshBackend

\* One pass of `async for chunk in stream`, up to and including the yield.
StreamChunk ==
    /\ pc = "stream"
    /\ Len(chunks) < MaxChunks
    /\ \E chunk \in Chunks :
         /\ chunks' = Append(chunks, chunk)
         /\ IF ~chunk.choices
            THEN UNCHANGED <<accumulated_content, accumulated_tool_calls, yields>>
            ELSE LET content == AccumulateContent(accumulated_content, chunk.content)
                     calls_acc == AccumulateFragments(accumulated_tool_calls, chunk.tool_calls)
                 IN /\ accumulated_content' = content
                    /\ accumulated_tool_calls' = calls_acc
                    /\ yields' = Append(yields, Snapshot(content, calls_acc,
                                                         chunk.finish_reason, Len(chunks) + 1))
    /\ UNCHANGED <<backendVars, configVars, concurrentVars, stepVars, awaitVars, pc, runVars,
                   toolsetVars, extractVars>>

\* The stream is exhausted: the generator returns.
StreamEnds ==
    /\ pc = "stream"
    /\ pc' = "stream_done"
    /\ UNCHANGED <<backendVars, configVars, concurrentVars, stepVars, awaitVars, runVars,
                   toolsetVars, streamVars, extractVars>>

\* The stream raises: the exception is logged and re-raised to the consumer.
StreamRaises ==
    /\ pc = "stream"
    /\ pc' = "stream_raised"
    /\ UNCHANGED <<backendVars, configVars, concurrentVars, stepVars, awaitVars, runVars,
                   toolsetVars, streamVars, extractVars>>

StreamNext ==
    \/ StreamChunk
    \/ StreamEnds
    \/ StreamRaises

SpecStream == StreamInit /\ [][StreamNext]_vars

\* ------------------------------------------- _extract_evidence on any output
Page(url, title, content) == JDict(<<KV("url", url), KV("title", title), KV("content", content)>>)
Surfed(browsed) ==
    JDict(<<KV("query", JStr("q")), KV("search_results", JList(<<SearchHit>>)),
            KV("browsed_content", browsed)>>)
Validation(status, n) ==
    JDict(<<KV("claim", JStr("X")), KV("status", JStr(status)), KV("supporting_sources", JInt(n))>>)

\* Output shapes per tool name: the ones the repository's tools produce, and
\* ones with missing keys, null fields and entries that are not objects.
OutputShapes(name) ==
    CASE name = "web_search" ->
            {JList(<<SearchHit>>), JList(<<>>),
             JList(<<JDict(<<KV("title", JStr("T"))>>), JStr("s"), SearchHit>>),
             JList(<<JDict(<<KV("url", JNull), KV("title", JNull)>>)>>),
             JDict(<<KV("url", JStr("u"))>>)}
      [] name = "batch_web_surfer" ->
            {JList(<<Surfed(JList(<<Page(JStr("u"), JStr("T"), JStr(LONG))>>))>>),
             JList(<<Surfed(JList(<<>>))>>),
             JList(<<Surfed(JList(<<Page(JStr("u"), JNull, JStr("c")),
                                    Page(JStr("u"), JStr("T"), JNull)>>))>>),
             JList(<<Surfed(JList(<<JStr("s")>>))>>),
             JList(<<Surfed(JNull)>>)}
      [] name = "web_browse" ->
            {Page(JStr("u"), JStr("T"), JStr("c")), Page(JStr("u"), JStr("T"), JStr(LONG)),
             Page(JStr("u"), JNull, JStr("c")), Page(JStr("u"), JStr("T"), JNull),
             JDict(<<KV("url", JStr("u"))>>), JList(<<SearchHit>>)}
      [] name = "cross_validate" ->
            {Validation("supported", 2), Validation("uncertain", 0),
             JDict(<<KV("claim", JStr("X")), KV("original_source", JNull),
                     KV("validation_sources", JList(<<SearchHit>>)),
                     KV("supporting_sources", JInt(1)),
                     KV("status", JStr("partially_supported"))>>),
             JDict(<<KV("claim", JStr("X"))>>),
             JDict(<<KV("status", JStr("supported")), KV("supporting_sources", JInt(2))>>),
             JStr("X")}
      [] OTHER -> {JDict(<<KV("cleared", JInt(1))>>)}

ExtractNames == {"web_search", "batch_web_surfer", "web_browse", "cross_validate", "todo"}

\* The tool results the loop can hand to the extraction.
ExtractInputs ==
    UNION {{[name |-> n, result |-> ToolResult(TRUE, out, None)] : out \in OutputShapes(n)} :
             n \in ExtractNames}
    \cup {[name |-> n, result |-> ToolResult(FALSE, JNull, Txt(<<"tool failed">>))] :
            n \in ExtractNames}

\* A loop that is about to receive tool results.
ExtractInit ==
    /\ profile = "tools"
    /\ max_steps = 1
    /\ on_step = "None"
    /\ pc = "extract"
    /\ FreshRun
    /\ FreshToolSet(AllEnabled)
    /\ FreshStream
    /\ FreshTodoTools
    /\ FreshBackend

\* Lines 176-178 of the loop for one tool result, under the loop's except.
ExtractStep ==
    /\ pc = "extract"
    /\ Len(extract_log) < MaxResults
    /\ \E in \in ExtractInputs :
         LET x == ExtractIfSuccess(in.name, in.result) IN
         /\ extract_log' = Append(extract_log, in)
         /\ evidence' = evidence \o x.evidence
         /\ claims' = claims \o x.claims
         /\ IF x.raised
            THEN error' = x.exc /\ pc' = AfterException
            ELSE UNCHANGED <<error, pc>>
    /\ UNCHANGED <<backendVars, configVars, concurrentVars, stepVars, awaitVars, toolsetVars,
                   streamVars, messages, step_count, is_complete, report_drafts,
                   tool_calls, pending, model_requests, tool_results, dispatches,
                   runnerVars>>

ExtractNext == ExtractStep

SpecExtract == ExtractInit /\ [][ExtractNext]_vars

\* ------------------------------------------------------ concurrent runs
\* The keyword arguments of the todo calls the runs make.
TodoKwargs ==
    {JDict(<<KV("action", JStr("add")), KV("title", JStr("t"))>>),
     JDict(<<KV("action", JStr("complete")), KV("item_id", JStr("1"))>>),
     JDict(<<KV("action", JStr("update")), KV("item_id", JStr("1")), KV("title", JStr("u"))>>),
     JDict(<<KV("action", JStr("list"))>>),
     JDict(<<KV("action", JStr("clear"))>>)}

\* The ids uuid4 can give a new item of a task list: any id not in the list.
\* Two task lists may hold the same id.
NewIds(its) == {ToString(k) : k \in 1..MaxTodoActions} \ {its[i].id : i \in 1..Len(its)}

\* TodoTool.get_state() of a run's TodoTool.
TodoState(run) ==
    LET its == todo_items[Cell(run)]
        count(status) == Cardinality({i \in 1..Len(its) : its[i].status = status})
    IN [items |-> its, pending_count |-> count("pending"),
        completed_count |-> count("completed")]

\* execute_research_run has built an AgentRunner, and with it a ToolSet, for
\* each of two runs.
TwoRunsInit ==
    /\ profile = "tools"
    /\ max_steps = 1
    /\ on_step = "None"
    /\ pc = "two_runs"
    /\ FreshRun
    /\ FreshToolSet(AllEnabled)
    /\ FreshStream
    /\ FreshTodoTools
    /\ FreshBackend

\* One of the runs executes a todo call; TodoTool.execute awaits nothing, so
\* the calls of the two runs interleave call by call.
TodoAction ==
    /\ pc = "two_runs"
    /\ Len(todo_log) < MaxTodoActions
    /\ \E run \in Runs, kwargs \in TodoKwargs :
         \E new_id \in NewIds(todo_items[Cell(run)]) :
            LET x == TodoExecute(kwargs, todo_items[Cell(run)], new_id) IN
            /\ todo_items' = [todo_items EXCEPT ![Cell(run)] = x.items]
            /\ todo_log' = Append(todo_log, [run |-> run, kwargs |-> kwargs,
                                             result |-> x.result])
    /\ UNCHANGED <<backendVars, configVars, stepVars, pc, runVars, toolsetVars, streamVars,
                   extractVars, awaitVars>>

TwoRunsNext == TodoAction

SpecTwoRuns == TwoRunsInit /\ [][TwoRunsNext]_vars

\* -------------------------------------------------------- _determine_phase
\* The tool invocations a log handed to the inference is made of.
PhaseMenu ==
    {<<"reflect", ARGS_EMPTY>>, <<"cross_validate", ARGS_EMPTY>>,
     <<"file_write", ARGS_REPORT>>, <<"file_edit", ARGS_EMPTY>>,
     <<"web_search", ARGS_QUERY>>, <<"todo", ARGS_TODO_REPORT>>}

\* A budget at which max_steps * 0.7 is not exact in floating point, and the
\* step count that is 70 % of it.
InexactBudget == 90
SeventyPercentOfInexact == 63

\* The budgets of the agents observed: above the steps observed, so that the
\* steps fall on both sides of 70 % of them, and the inexact one.
PhaseBudgets == {MaxSteps + 1, MaxSteps + 2, InexactBudget}

\* The step counts at which the inference is observed under a budget: the last
\* planning step and a later one, or exactly 70 % of the budget.
PhaseSteps(limit) == IF limit = InexactBudget THEN {SeventyPercentOfInexact} ELSE {2, MaxSteps}

\* The tool logs of up to MaxLog records.
PhaseLogs ==
    UNION {[1..k -> {[tool |-> e[1], args |-> e[2], success |-> TRUE, timestamp |-> 1] :
                       e \in PhaseMenu}] : k \in 0..MaxLog}

\* An agent with one of the budgets observed.
PhaseInit ==
    /\ profile = "tools"
    /\ max_steps \in PhaseBudgets
    /\ on_step = "None"
    /\ pc = "phase"
    /\ FreshRun
    /\ FreshToolSet(AllEnabled)
    /\ FreshStream
    /\ FreshTodoTools
    /\ FreshBackend

\* `state.current_phase = self._determine_phase(state)` on a state whose step
\* count and tool log are any a run can have built.
DeterminePhaseStep ==
    /\ pc = "phase"
    /\ \E count \in PhaseSteps(max_steps), log \in PhaseLogs :
         /\ step_count' = count
         /\ tool_calls' = log
         /\ current_phase' = DeterminePhase(count, log, max_steps)
    /\ pc' = "phased"
    /\ UNCHANGED <<backendVars, configVars, concurrentVars, last_finish_reason, on_step_calls, awaitVars,
                   toolsetVars, streamVars, extractVars, messages, is_complete, error,
                   report_drafts, pending, model_requests, tool_results, dispatches,
                   runnerVars>>

PhaseNext == DeterminePhaseStep

SpecPhase == PhaseInit /\ [][PhaseNext]_vars

\* ------------------------------------------- delete_run against a live run
\* What the steps of execute_research_run and delete_run leave alone.
cancelFrame ==
    <<configVars, concurrentVars, stepVars, awaitVars, toolsetVars, streamVars,
      extractVars, eventVars, connVars, messages, is_complete, error, report_drafts,
      tool_calls, pending, model_requests, tool_results, dispatches,
      tool_event_count, run_error_message>>

\* create_run has stored the run and scheduled execute_research_run for it.
CancelInit ==
    /\ profile = "tools"
    /\ max_steps \in 1..MaxSteps
    /\ on_step = "_on_step"
    /\ pc = "queued"
    /\ FreshRun
    /\ FreshToolSet(AllEnabled)
    /\ FreshStream
    /\ FreshTodoTools
    /\ FreshBackend

\* Database.update_run(run): the status column after `UPDATE runs SET
\* status = ?, ...` with run.status; the statement has no condition on the
\* row's present status.
UpdateRun(row_status, status) == status

\* execute_research_run: `run = await db.get_run(run_id)`.
TaskGetRun ==
    /\ pc = "queued"
    /\ self_run_status' = run_status
    /\ pc' = "fetched"
    /\ UNCHANGED <<cancelFrame, step_count, run_status, refreshed_status, api_pc,
                   api_run_status, cancelled>>

\* execute_research_run: `run.status = RunStatus.RUNNING`, update_run, and
\* AgentRunner(run, db, emitter), which keeps that Run object as self.run.
TaskMarksRunning ==
    /\ pc = "fetched"
    /\ self_run_status' = "running"
    /\ run_status' = UpdateRun(run_status, "running")
    /\ pc' = "running"
    /\ UNCHANGED <<cancelFrame, step_count, refreshed_status, api_pc, api_run_status,
                   cancelled>>

\* One _on_step callback of the run: `await self.db.update_run(self.run)` in
\* _update_metrics (and at a phase change) writes the runner's Run object.
RunnerUpdatesRun ==
    /\ pc = "running"
    /\ step_count < max_steps
    /\ step_count' = step_count + 1
    /\ run_status' = UpdateRun(run_status, self_run_status)
    /\ UNCHANGED <<cancelFrame, pc, cancelVars>>

\* AgentRunner.execute returns: _process_results has written self.run.
RunnerReturns ==
    /\ pc = "running"
    /\ run_status' = UpdateRun(run_status, self_run_status)
    /\ pc' = "executed"
    /\ UNCHANGED <<cancelFrame, step_count, cancelVars>>

\* AgentRunner.execute raises: it marks self.run FAILED, writes it, re-raises.
RunnerRaises ==
    /\ pc = "running"
    /\ self_run_status' = "failed"
    /\ run_status' = UpdateRun(run_status, "failed")
    /\ pc' = "raised"
    /\ UNCHANGED <<cancelFrame, step_count, refreshed_status, api_pc, api_run_status,
                   cancelled>>

\* execute_research_run: `run = await db.get_run(run_id)  # Refresh from DB`.
TaskRefreshes ==
    /\ pc = "executed"
    /\ refreshed_status' = run_status
    /\ pc' = "refreshed"
    /\ UNCHANGED <<cancelFrame, step_count, run_status, self_run_status, api_pc,
                   api_run_status, cancelled>>

\* execute_research_run: `if run and run.status == RunStatus.RUNNING:` marks
\* the refreshed run SUCCEEDED and writes it.
TaskCompletes ==
    /\ pc = "refreshed"
    /\ run_status' = IF refreshed_status = "running"
                     THEN UpdateRun(run_status, "succeeded")
                     ELSE run_status
    /\ pc' = "done"
    /\ UNCHANGED <<cancelFrame, step_count, cancelVars>>

\* execute_research_run's except clause re-reads the run and writes FAILED.
TaskFails ==
    /\ pc = "raised"
    /\ run_status' = UpdateRun(run_status, "failed")
    /\ pc' = "done"
    /\ UNCHANGED <<cancelFrame, step_count, cancelVars>>

\* delete_run: `run = await db.get_run(run_id)`.
DeleteGetsRun ==
    /\ api_pc = "idle"
    /\ api_run_status' = run_status
    /\ api_pc' = "fetched"
    /\ UNCHANGED <<cancelFrame, pc, step_count, run_status, self_run_status,
                   refreshed_status, cancelled>>

\* delete_run: `if run.status == RunStatus.RUNNING:` marks its run CANCELLED
\* and writes it; the response follows in either case.
DeleteCancels ==
    /\ api_pc = "fetched"
    /\ IF api_run_status = "running"
       THEN /\ run_status' = UpdateRun(run_status, "cancelled")
            /\ cancelled' = TRUE
       ELSE UNCHANGED <<run_status, cancelled>>
    /\ api_pc' = "done"
    /\ UNCHANGED <<cancelFrame, pc, step_count, self_run_status, refreshed_status,
                   api_run_status>>

CancelNext ==
    \/ TaskGetRun
    \/ TaskMarksRunning
    \/ RunnerUpdatesRun
    \/ RunnerReturns
    \/ RunnerRaises
    \/ TaskRefreshes
    \/ TaskCompletes
    \/ TaskFails
    \/ DeleteGetsRun
    \/ DeleteCancels

SpecCancel == CancelInit /\ [][CancelNext]_vars

\* ------------------------------------------------------- ConnectionManager
\* What the operations of ConnectionManager leave alone.
connFrame ==
    <<configVars, concurrentVars, stepVars, awaitVars, toolsetVars, streamVars,
      extractVars, eventVars, cancelVars, pc, runVars>>

\* ConnectionManager() with no websocket accepted yet.
ConnectionsInit ==
    /\ profile = "tools"
    /\ max_steps = MaxSteps
    /\ on_step = "_on_step"
    /\ pc = "serving"
    /\ FreshRun
    /\ FreshToolSet(AllEnabled)
    /\ FreshStream
    /\ FreshTodoTools
    /\ FreshBackend

\* The run's set after registering or discarding a websocket; a run_id of
\* None leaves every set alone.  A missing key and an empty set behave alike:
\* every reader uses .get(run_id, set()) or tests `run_id in`.
WithRun(conns, run_id, ws) ==
    IF run_id = "None" THEN conns ELSE [conns EXCEPT ![run_id] = @ \cup {ws}]
WithoutRun(conns, run_id, gone) ==
    IF run_id = "None" THEN conns ELSE [conns EXCEPT ![run_id] = @ \ gone]

\* connect(websocket, run_id): accept, then the registration under the lock.
Connect ==
    \E ws \in WebSockets \ accepted, run_id \in RunIds \cup {"None"} :
        /\ accepted' = accepted \cup {ws}
        /\ watching' = [watching EXCEPT ![ws] = run_id]
        /\ all_connections' = all_connections \cup {ws}
        /\ run_connections' = WithRun(run_connections, run_id, ws)
        /\ UNCHANGED <<connFrame, to_run, to_all, dropped, late_sends>>

\* disconnect(websocket, run_id), called by the endpoint that connected the
\* websocket, with the run_id it connected with.
Disconnect ==
    \E ws \in accepted :
        /\ \/ ws \in all_connections
           \/ \E r \in RunIds : ws \in run_connections[r]
        /\ all_connections' = all_connections \ {ws}
        /\ run_connections' = WithoutRun(run_connections, watching[ws], {ws})
        /\ UNCHANGED <<connFrame, accepted, watching, to_run, to_all, dropped,
                       late_sends>>

\* A broadcast that has taken its copy of the connections to send to.
Broadcast(run_id, connections) ==
    [stage |-> "sending", run_id |-> run_id, connections |-> connections,
     disconnected |-> {}, stale |-> connections \cap dropped]

\* One pass of `for websocket in connections`: send_json returns or raises.
Sent(b, ws, ok) ==
    [b EXCEPT !.connections = @ \ {ws},
              !.disconnected = IF ok THEN @ ELSE @ \cup {ws}]

\* broadcast_to_run(run_id, event): the copy taken under the lock.
ToRunStart ==
    /\ to_run.stage = "idle"
    /\ \E r \in RunIds : to_run' = Broadcast(r, run_connections[r])
    /\ UNCHANGED <<connFrame, accepted, watching, all_connections, run_connections,
                   to_all, dropped, late_sends>>

\* broadcast_to_run: one send of the loop.
ToRunSend ==
    /\ to_run.stage = "sending"
    /\ \E ws \in to_run.connections, ok \in BOOLEAN :
         /\ to_run' = Sent(to_run, ws, ok)
         /\ late_sends' = IF ok /\ ws \in to_run.stale THEN late_sends \cup {ws}
                          ELSE late_sends
    /\ UNCHANGED <<connFrame, accepted, watching, all_connections, run_connections,
                   to_all, dropped>>

\* broadcast_to_run: the clean-up of the websockets whose send failed.
ToRunCleanup ==
    /\ to_run.stage = "sending"
    /\ to_run.connections = {}
    /\ all_connections' = all_connections \ to_run.disconnected
    /\ run_connections' = WithoutRun(run_connections, to_run.run_id, to_run.disconnected)
    /\ dropped' = dropped \cup to_run.disconnected
    /\ to_run' = NoBroadcast
    /\ UNCHANGED <<connFrame, accepted, watching, to_all, late_sends>>

\* broadcast_all(event): the copy taken under the lock.
ToAllStart ==
    /\ to_all.stage = "idle"
    /\ to_all' = Broadcast("None", all_connections)
    /\ UNCHANGED <<connFrame, accepted, watching, all_connections, run_connections,
                   to_run, dropped, late_sends>>

\* broadcast_all: one send of the loop.
ToAllSend ==
    /\ to_all.stage = "sending"
    /\ \E ws \in to_all.connections, ok \in BOOLEAN : to_all' = Sent(to_all, ws, ok)
    /\ UNCHANGED <<connFrame, accepted, watching, all_connections, run_connections,
                   to_run, dropped, late_sends>>

\* broadcast_all: the clean-up discards from _all_connections only.
ToAllCleanup ==
    /\ to_all.stage = "sending"
    /\ to_all.connections = {}
    /\ all_connections' = all_connections \ to_all.disconnected
    /\ dropped' = dropped \cup to_all.disconnected
    /\ to_all' = NoBroadcast
    /\ UNCHANGED <<connFrame, accepted, watching, run_connections, to_run, late_sends>>

ConnectionsNext ==
    \/ Connect
    \/ Disconnect
    \/ ToRunStart
    \/ ToRunSend
    \/ ToRunCleanup
    \/ ToAllStart
    \/ ToAllSend
    \/ ToAllCleanup

SpecConnections == ConnectionsInit /\ [][ConnectionsNext]_vars

\* ------------------------------------------------------------------ claims
\* The assistant messages and the tool-role messages of the history, in order.
AssistantMsgs == SelectSeq(messages, LAMBDA m : m.role = "assistant")
ToolMsgs == SelectSeq(messages, LAMBDA m : m.role = "tool")
LastMsg == messages[Len(messages)]
RunReturned == pc \in {"returned", "finished"}

\* C1: on a fresh AgentState step_count is <= max_steps in every state the loop
\* reaches and when run() returns.
C1_StepCountBounded == step_count <= max_steps

\* The budget is used up to the last step, without completion or error.
C1_Witness ==
    /\ pc = "returned"
    /\ step_count = max_steps
    /\ max_steps = MaxSteps
    /\ ~is_complete
    /\ error = NoError

\* C2: whenever is_complete is true, in the states the step callback sees and
\* when run() returns, report_drafts is non-empty.
C2_CompleteHasDraft == is_complete => report_drafts # <<>>

\* The callback is about to see a state completed by a report whose text
\* between the markers is empty.
C2_Witness ==
    /\ pc = "callback"
    /\ on_step = "_on_step"
    /\ is_complete
    /\ report_drafts = <<<<>>>>

\* The run was completed through the implicit path and has returned.
C2_WitnessImplicit ==
    /\ RunReturned
    /\ is_complete
    /\ step_count > MinSteps
    /\ report_drafts = <<<<BLOCK, "OK">>>>

\* C3: only a model-provider failure sets state.error and halts the loop;
\* malformed arguments, failing tools (missing or wrongly-shaped parameters
\* included), unknown tool names and budget exhaustion never set it, and never
\* stop the loop before completion or max_steps.
C3_OnlyProviderFailureSetsError ==
    /\ error \in {NoError, ProviderError}
    /\ (RunReturned /\ error # ProviderError) => (is_complete \/ step_count = max_steps)

\* The tool call that the i-th log entry and the i-th tool message come from.
CallOf(i) ==
    CHOOSE c \in UNION {{m.tool_calls[k] : k \in 1..Len(m.tool_calls)} :
                          m \in {AssistantMsgs[j] : j \in 1..Len(AssistantMsgs)}} :
        c.id = ToolMsgs[i].tool_call_id

InvalidJson(i) == ~json_loads(tool_calls[i].args).valid

\* C4: a tool call whose argument text is not valid JSON is not dispatched, its
\* tool message carries the literal error text and the call's id, state.error
\* stays unset and the loop goes on to the next step instead of aborting.
C4_InvalidJsonRecovered ==
    /\ \A i \in 1..Len(tool_calls) :
         InvalidJson(i) =>
            /\ ToolMsgs[i].content
                 = Txt(<<"Invalid JSON in tool arguments: ", tool_calls[i].args>>)
            /\ CallOf(i).arguments = tool_calls[i].args
            /\ \A k \in 1..Len(dispatches) : dispatches[k] # CallOf(i).id
    /\ error # JSONDecodeError

\* C5: when chat_completion raises at step k the run aborts at once: error is
\* the error text, that step appends no assistant message and executes no
\* tool, step_count is k, and afterwards no model request is issued, no tool
\* is executed and nothing of this changes again.
C5_ProviderFailureAborts ==
    [][/\ (error # ProviderError /\ error' = ProviderError) =>
            /\ error = NoError
            /\ messages' = messages
            /\ tool_calls' = tool_calls
            /\ dispatches' = dispatches
            /\ step_count' = step_count + 1
            /\ step_count' = model_requests'
       /\ error = ProviderError =>
            /\ error' = ProviderError
            /\ model_requests' = model_requests
            /\ step_count' = step_count
            /\ messages' = messages
            /\ tool_calls' = tool_calls
            /\ dispatches' = dispatches]_vars

\* The provider failed at step 2, after a step that used tools, and run()
\* has returned.
C5_Witness ==
    /\ pc = "returned"
    /\ error = ProviderError
    /\ step_count = 2
    /\ model_requests = 2
    /\ Len(AssistantMsgs) = 1
    /\ dispatches # <<>>

\* C6: when chat_completion fails in a run driven by execute_research_run, the
\* persisted run ends FAILED with the error recorded, never SUCCEEDED.
C6_ProviderFailureFailsRun ==
    (pc = "finished" /\ error = ProviderError) =>
        /\ run_status = "failed"
        /\ run_error_message = ProviderError

\* C7: the tool message of every executed call holds the JSON text of the
\* output when the result is a success, whatever the output, and the raw
\* error text when it is a failure, tagged with the call's id.
C7_ToolMessageIsOutputOrError ==
    \A i \in 1..Len(tool_results) :
        /\ ToolMsgs[i].content
             = IF tool_results[i].success THEN Txt(json_dumps(tool_results[i].output))
               ELSE tool_results[i].error
        /\ CallOf(i).name = tool_calls[i].tool

\* "<report>" with a "</report>" somewhere after it.
OrderedPair(toks) ==
    \E i, j \in 1..Len(toks) : i < j /\ toks[i] = OPEN /\ toks[j] = CLOSE

\* The text between the first "<report>" and the first "</report>" after it.
Between(toks) ==
    LET i == Index(toks, OPEN)
        j == Min({k \in (i + 1)..Len(toks) : toks[k] = CLOSE})
    IN SubSeq(toks, i + 1, j - 1)

\* The last message is a text-only response, and the callback of its step has
\* not run yet or the run ended with it.
TextResponseLast ==
    /\ messages # <<>>
    /\ LastMsg.role = "assistant"
    /\ LastMsg.tool_calls = <<>>
    /\ Truthy(LastMsg.content)

\* C8: a response without tool calls is taken as the final report through the
\* markers exactly when its text has "<report>" and a later "</report>", and
\* the draft is the trimmed text between them; text whose "</report>" only
\* precedes "<report>" does not complete the run.
C8_MarkerPathNeedsOrderedPair ==
    (TextResponseLast /\ StrLen(LastMsg.content.s) <= MinLen) =>
        IF OrderedPair(LastMsg.content.s)
        THEN is_complete /\ report_drafts = <<strip(Between(LastMsg.content.s))>>
        ELSE ~is_complete

\* The text is "<report>" X "</report>" with no "</report>" inside X.
Wrapped(toks) ==
    /\ Len(toks) >= 2
    /\ toks[1] = OPEN
    /\ toks[Len(toks)] = CLOSE
    /\ ~Contains(SubSeq(toks, 2, Len(toks) - 1), CLOSE)

C9_WitnessTrimmed ==
    /\ RunReturned
    /\ TextResponseLast
    /\ LastMsg.content = Txt(<<OPEN, SP, "OK", SP, CLOSE>>)
    /\ step_count = 2
    /\ report_drafts = <<<<"OK">>>>

\* Every model request was answered, by text under MinLen characters that
\* does not hold both markers, without tool calls.
ChattyRun ==
    /\ Len(AssistantMsgs) = model_requests
    /\ \A i \in 1..Len(AssistantMsgs) :
         LET m == AssistantMsgs[i] IN
         /\ m.tool_calls = <<>>
         /\ ~m.content.none =>
              /\ StrLen(m.content.s) < MinLen
              /\ ~(Contains(m.content.s, OPEN) /\ Contains(m.content.s, CLOSE))

\* C10: if the model never emits tool calls nor a marker pair and every
\* response is under 1000 characters, the loop runs exactly max_steps steps,
\* ends with is_complete false and no error, and the fallback stores as the
\* single draft the text of the last assistant message with non-empty text,
\* if there is one.
C10_ChattyRunExhaustsBudget ==
    (RunReturned /\ ChattyRun) =>
        /\ step_count = max_steps
        /\ model_requests = max_steps
        /\ ~is_complete
        /\ error = NoError
        /\ IF \E i \in 1..Len(messages) :
                 messages[i].role = "assistant" /\ Truthy(messages[i].content)
           THEN \E i \in 1..Len(messages) :
                  /\ messages[i].role = "assistant" /\ Truthy(messages[i].content)
                  /\ \A j \in (i + 1)..Len(messages) :
                       ~(messages[j].role = "assistant" /\ Truthy(messages[j].content))
                  /\ report_drafts = <<messages[i].content.s>>
           ELSE report_drafts = <<>>

\* Three chatty steps with max_steps = 3: the draft is the last non-empty text.
C10_Witness ==
    /\ pc = "returned"
    /\ ChattyRun
    /\ max_steps = 3
    /\ step_count = 3
    /\ AssistantMsgs[1].content = Txt(<<"OK">>)
    /\ AssistantMsgs[2].content = Txt(<<OPEN, "OK">>)
    /\ AssistantMsgs[3].content = None
    /\ report_drafts = <<<<OPEN, "OK">>>>

\* The step that leaves the loop and returns from run().
Returning == pc \notin {"returned", "finished"} /\ pc' = "returned"

\* C11: when the loop ends, by exhaustion, completion or error, with no draft,
\* the draft stored is the text of the most recent assistant message with
\* non-empty text, and none is stored if there is no such message; with a
\* draft the fallback does nothing; is_complete and error are never changed.
C11_FallbackStoresLastText ==
    [][Returning =>
        /\ is_complete' = is_complete
        /\ error' = error
        /\ messages' = messages
        /\ IF report_drafts # <<>>
           THEN report_drafts' = report_drafts
           ELSE IF \E i \in 1..Len(messages) :
                     messages[i].role = "assistant" /\ Truthy(messages[i].content)
                THEN \E i \in 1..Len(messages) :
                       /\ messages[i].role = "assistant" /\ Truthy(messages[i].content)
                       /\ \A j \in (i + 1)..Len(messages) :
                            ~(messages[j].role = "assistant" /\ Truthy(messages[j].content))
                       /\ report_drafts' = <<messages[i].content.s>>
                ELSE report_drafts' = <<>>]_vars

\* The loop broke on an error after a step whose response had text and tool
\* calls and a later step whose response had tool calls only: the draft is the
\* earlier text.
C11_Witness ==
    /\ pc = "returned"
    /\ error # NoError
    /\ ~is_complete
    /\ Len(AssistantMsgs) = 2
    /\ AssistantMsgs[1].content = Txt(<<"OK">>)
    /\ AssistantMsgs[2].content = None
    /\ report_drafts = <<<<"OK">>>>

\* run() returned a completed run whose only draft is the extracted report.
C11_WitnessDraftKept ==
    /\ pc = "returned"
    /\ is_complete
    /\ LastMsg.content = Txt(<<OPEN, "OK", CLOSE>>)
    /\ report_drafts = <<<<"OK">>>>

\* run() returned without any text from the model: no draft.
C11_WitnessNoText ==
    /\ pc = "returned"
    /\ Len(AssistantMsgs) >= 1
    /\ report_drafts = <<>>

\* The call a step of the ToolSet has just made.
LastCall == exec_log'[Len(exec_log')]

\* C12: ToolSet.execute with an unregistered name returns the failed result
\* (success false, output null, error naming the tool) and never raises; a
\* repeated call with that name gives the same result as every earlier one,
\* whatever was called in between, and the registry and the tools' state are
\* left unchanged.
C12_UnknownToolFails ==
    [][(Len(exec_log') > Len(exec_log) /\ LastCall.tool_name \notin tools) =>
        /\ ~LastCall.raised
        /\ LastCall.result
             = ToolResult(FALSE, JNull, Txt(<<"Unknown tool: ", LastCall.tool_name>>))
        /\ tools' = tools
        /\ items' = items
        /\ \A i \in 1..Len(exec_log) :
             exec_log[i].tool_name = LastCall.tool_name =>
                ~exec_log[i].raised /\ exec_log[i].result = LastCall.result]_vars

\* A content value as a string, an absent one as the empty string.
Str(c) == IF c.none THEN <<>> ELSE c.s

IsPrefix(a, b) == Len(a) <= Len(b) /\ SubSeq(b, 1, Len(a)) = a

RECURSIVE ConcatText(_)
\* The concatenation of the text deltas of a sequence of chunks.
ConcatText(cs) ==
    IF cs = <<>> THEN <<>>
    ELSE (IF Head(cs).choices THEN Str(Head(cs).content) ELSE <<>>) \o ConcatText(Tail(cs))

\* C13: the content of every yielded snapshot, an absent content counted as
\* the empty string, is the concatenation of all text deltas received up to
\* that snapshot, and each snapshot's content extends the previous one's as a
\* prefix.
C13_ContentPrefixMonotone ==
    /\ \A i \in 1..Len(yields) :
         Str(yields[i].content) = ConcatText(SubSeq(chunks, 1, yields[i].at))
    /\ \A i \in 1..(Len(yields) - 1) :
         IsPrefix(Str(yields[i].content), Str(yields[i + 1].content))

\* Three snapshots: "a", still "a" after a delta without text, then "ab".
C13_Witness ==
    /\ Len(yields) = 3
    /\ yields[1].content = Txt(<<"a">>)
    /\ yields[2].content = Txt(<<"a">>)
    /\ chunks[2].content = None
    /\ yields[3].content = Txt(<<"a", "b">>)

RECURSIVE AllFragments(_)
\* The tool-call fragments of a sequence of chunks, in arrival order.
AllFragments(cs) ==
    IF cs = <<>> THEN <<>>
    ELSE (IF Head(cs).choices THEN Head(cs).tool_calls ELSE <<>>) \o AllFragments(Tail(cs))

\* The fragments received for an index that supply a name.
Named(idx) ==
    SelectSeq(AllFragments(chunks),
              LAMBDA tc : tc.index = idx /\ tc.function.present /\ Truthy(tc.function.name))

\* C14: the name of the call reassembled for a stream index is the name of
\* the first fragment of that index that supplies one, whatever names later
\* fragments of the index carry.
C14_NameSetByFirstFragment ==
    \A i \in 1..Len(accumulated_tool_calls) :
        LET call == accumulated_tool_calls[i] IN
        Named(call.index) # <<>> => call.name = Named(call.index)[1].function.name

RECURSIVE ConcatArguments(_, _)
\* The concatenation of the argument texts of the fragments of one index.
ConcatArguments(fragments, idx) ==
    IF fragments = <<>> THEN <<>>
    ELSE LET tc == Head(fragments) IN
         (IF tc.index = idx /\ tc.function.present THEN Str(tc.function.arguments) ELSE <<>>)
         \o ConcatArguments(Tail(fragments), idx)

\* C15: for every stream index the reassembled call's arguments are the
\* concatenation, in arrival order, of the argument texts received for that
\* index and for no other index, however the indices interleave; every index
\* received has exactly one reassembled call.
C15_ArgumentsConcatenated ==
    /\ \A i \in 1..Len(accumulated_tool_calls) :
         accumulated_tool_calls[i].arguments
           = ConcatArguments(AllFragments(chunks), accumulated_tool_calls[i].index)
    /\ \A i, j \in 1..Len(accumulated_tool_calls) :
         accumulated_tool_calls[i].index = accumulated_tool_calls[j].index => i = j
    /\ {accumulated_tool_calls[i].index : i \in 1..Len(accumulated_tool_calls)}
         = {AllFragments(chunks)[k].index : k \in 1..Len(AllFragments(chunks))}

\* Fragments of index 0, then of index 1, then of index 0 again.
C15_Witness ==
    /\ Len(chunks) = 3
    /\ Len(accumulated_tool_calls) = 2
    /\ chunks[2].tool_calls # <<>>
    /\ chunks[2].tool_calls[1].index = 1
    /\ accumulated_tool_calls[1].index = 0
    /\ accumulated_tool_calls[1].arguments = <<"x", "y">>
    /\ accumulated_tool_calls[2].arguments = <<"y">>

\* The tool result a step has just handed to the extraction.
LastInput == extract_log'[Len(extract_log')]
Extracting == Len(extract_log') > Len(extract_log)

\* The output is an object carrying the claim text, the status and the count.
WellFormedValidation(output) ==
    output.t = "dict" /\ {"claim", "status", "supporting_sources"} \subseteq Keys(output)

\* The value an object holds under a key it has.
Field(output, key) ==
    output.pairs[CHOOSE i \in 1..Len(output.pairs) : output.pairs[i].k = key].v

\* C16: a successful cross_validate result whose output carries claim, status
\* and supporting_sources appends exactly one claim entry holding those three
\* values and no evidence entry; for {"claim": "X", "status": "supported",
\* "supporting_sources": 2} the entry is ("X", "supported", 2).
C16_ValidationAppendsOneClaim ==
    [][(/\ Extracting
        /\ LastInput.name = "cross_validate"
        /\ LastInput.result.success
        /\ WellFormedValidation(LastInput.result.output)) =>
            /\ claims' = Append(claims,
                    [text |-> Field(LastInput.result.output, "claim"),
                     status |-> Field(LastInput.result.output, "status"),
                     supporting_sources |-> Field(LastInput.result.output, "supporting_sources")])
            /\ evidence' = evidence
            /\ error' = error]_vars

\* The scenario's result was extracted after a result that left a claim.
C16_Witness ==
    /\ Len(extract_log) = 2
    /\ extract_log[2] = [name |-> "cross_validate",
                         result |-> ToolResult(TRUE, Validation("supported", 2), None)]
    /\ Len(claims) = 2
    /\ claims[2] = [text |-> JStr("X"), status |-> JStr("supported"),
                    supporting_sources |-> JInt(2)]
    /\ evidence = <<>>
    /\ error = NoError

\* C17: a successful cross_validate result appends a claim entry if and only
\* if its output is an object carrying the claim text, the status and the
\* supporting-source count; an object lacking one of them appends nothing.
C17_ClaimIffWellFormed ==
    [][(Extracting /\ LastInput.name = "cross_validate" /\ LastInput.result.success) =>
            IF WellFormedValidation(LastInput.result.output)
            THEN Len(claims') = Len(claims) + 1
            ELSE claims' = claims]_vars

\* C18: handing a successful result of any output shape to the extraction
\* never fails the step: state.error stays unset and the loop goes on.
C18_ExtractionNeverFails ==
    [][Extracting => (error' = NoError /\ pc' = pc)]_vars

\* C19: in every message history each tool-role message carries the id of a
\* tool call of an assistant message that stands earlier in the history.
C19_ToolMessageAnswersEarlierCall ==
    \A i \in 1..Len(messages) :
        messages[i].role = "tool" =>
            \E j \in 1..(i - 1) :
                /\ messages[j].role = "assistant"
                /\ \E k \in 1..Len(messages[j].tool_calls) :
                     messages[j].tool_calls[k].id = messages[i].tool_call_id

\* Two steps with one tool call each: each tool message follows its own
\* assistant message.
C19_Witness ==
    /\ Len(messages) = 6
    /\ messages[3].role = "assistant"
    /\ messages[4].role = "tool"
    /\ messages[4].tool_call_id = messages[3].tool_calls[1].id
    /\ messages[5].role = "assistant"
    /\ messages[6].role = "tool"
    /\ messages[6].tool_call_id = messages[5].tool_calls[1].id
    /\ messages[6].tool_call_id # messages[4].tool_call_id

\* Every tool call of every assistant message of a history has its tool
\* message later in that history.
AllAnswered(history) ==
    \A j \in 1..Len(history) :
        \A k \in 1..Len(history[j].tool_calls) :
            \E i \in (j + 1)..Len(history) :
                /\ history[i].role = "tool"
                /\ history[i].tool_call_id = history[j].tool_calls[k].id

\* C20: at any time a run has at most one model request outstanding and at
\* most one tool execution outstanding, and never both; a model request is
\* issued only when every tool call of the earlier responses has its tool
\* message in the history the request sends.
C20_OneAwaitAtATime ==
    /\ outstanding_model \in {0, 1}
    /\ outstanding_tools \in {0, 1}
    /\ outstanding_model + outstanding_tools <= 1
    /\ AllAnswered(sent)
    /\ outstanding_model = 1 => (sent = messages /\ pending = <<>>)

\* The request of step 2 is outstanding after a step whose two tool calls
\* were executed one after the other.
C20_Witness ==
    /\ pc = "awaiting_model"
    /\ outstanding_model = 1
    /\ outstanding_tools = 0
    /\ step_count = 2
    /\ Len(sent) = 5
    /\ Len(sent[3].tool_calls) = 2
    /\ sent[4].role = "tool"
    /\ sent[5].role = "tool"

\* The second tool call of a step is being executed.
C20_WitnessTool ==
    /\ pc = "awaiting_tool"
    /\ outstanding_tools = 1
    /\ outstanding_model = 0
    /\ Len(pending) = 1
    /\ Len(LastMsg.tool_calls) = 0
    /\ LastMsg.role = "tool"

\* The run is complete or has an error.
Settled == is_complete \/ error # NoError

\* C21: within one run is_complete only goes from false to true, error is
\* set at most once, and once either is set no model request is issued and no
\* tool call is executed any more.
C21_SettledRunStopsWorking ==
    [][/\ is_complete => is_complete'
       /\ error # NoError => error' = error
       /\ Settled =>
            /\ model_requests' = model_requests
            /\ step_count' = step_count
            /\ tool_calls' = tool_calls
            /\ tool_results' = tool_results
            /\ dispatches' = dispatches
            /\ messages' = messages
            /\ pc' \notin {"tools", "awaiting_model", "awaiting_tool"}]_vars

\* A run completed at step 2 of 3, after a step with tool calls, has returned
\* with one request per step taken.
C21_Witness ==
    /\ pc = "returned"
    /\ is_complete
    /\ error = NoError
    /\ max_steps = 3
    /\ step_count = 2
    /\ model_requests = 2
    /\ Len(tool_results) >= 1

\* A tool call raised while another call of the same response was pending.
C21_WitnessError ==
    /\ pc = "returned"
    /\ error = TypeError
    /\ pending # <<>>
    /\ Len(pending) = 2
    /\ step_count < max_steps

\* The tools always registered, and those an ablation flag gates.
CoreTools == {"web_search", "web_browse", "batch_web_surfer", "file_write", "file_read"}
Enabled(flag) == ablations[flag] \in {"True", "missing"}

\* C22: under every ablation configuration, and after any calls, the registry
\* holds the five core tools, todo iff enable_todo_state, file_edit iff
\* enable_patch_editing, reflect and cross_validate iff enable_reflection (a
\* missing flag counting as enabled), and nothing else.
C22_RegistryFollowsAblations ==
    /\ CoreTools \subseteq tools
    /\ "todo" \in tools <=> Enabled("enable_todo_state")
    /\ "file_edit" \in tools <=> Enabled("enable_patch_editing")
    /\ "reflect" \in tools <=> Enabled("enable_reflection")
    /\ "cross_validate" \in tools <=> Enabled("enable_reflection")
    /\ tools \subseteq CoreTools \cup {"todo", "file_edit", "reflect", "cross_validate"}

\* todo is switched off, reflection is left out of the configuration, and the
\* ToolSet has answered calls to both tools.
C22_Witness ==
    /\ ablations["enable_todo_state"] = "False"
    /\ ablations["enable_reflection"] = "missing"
    /\ ablations["enable_patch_editing"] = "True"
    /\ Len(exec_log) = 2
    /\ exec_log[1].tool_name = "todo"
    /\ exec_log[1].result.error = Txt(<<"Unknown tool: ", "todo">>)
    /\ exec_log[2].tool_name = "cross_validate"
    /\ exec_log[2].raised
    /\ "todo" \notin tools
    /\ "cross_validate" \in tools

\* The run that executed the todo action of this step.
Actor == todo_log'[Len(todo_log')].run

\* C23: a todo action of one run leaves the items and the pending and
\* completed counts of the other run's todo tool unchanged, under every
\* interleaving of the two runs.
C23_RunsShareNoTodoState ==
    [][\A run \in Runs : Actor # run => TodoState(run)' = TodoState(run)]_vars

\* Both runs hold an item with the same id; run 1 has completed its item and
\* run 2's is still pending.
C23_Witness ==
    /\ Len(todo_log) = 3
    /\ todo_log[3].run = 1
    /\ todo_log[3].kwargs = JDict(<<KV("action", JStr("complete")), KV("item_id", JStr("1"))>>)
    /\ TodoState(1).completed_count = 1
    /\ TodoState(2).pending_count = 1
    /\ TodoState(2).items[1].id = "1"

\* The assistant message at position i is followed by one tool message per
\* tool call it carries, in the order of the calls and with their ids, and then
\* by the next assistant message or nothing.
Answered(i) ==
    LET n == Len(messages[i].tool_calls) IN
    /\ i + n <= Len(messages)
    /\ \A k \in 1..n :
         /\ messages[i + k].role = "tool"
         /\ messages[i + k].tool_call_id = messages[i].tool_calls[k].id
    /\ i + n < Len(messages) => messages[i + n + 1].role = "assistant"

\* No step is under way: the loop is between two steps or has been left.
BetweenSteps == pc \in {"callback", "loop", "broke", "returned", "finished"}

\* C24: every step whose model call returned appended exactly one assistant
\* message first and then, for each tool call in the order the model produced
\* them, exactly one tool message and one log record, the i-th tool message
\* carrying the id of the i-th call.
C24_StepAppendsMessagesInOrder ==
    BetweenSteps =>
        /\ Len(AssistantMsgs) = step_count - (IF error = ProviderError THEN 1 ELSE 0)
        /\ \A i \in 1..Len(messages) : messages[i].role = "assistant" => Answered(i)
        /\ Len(tool_calls) = Len(ToolMsgs)
        /\ \A j \in 1..Len(tool_calls) :
             /\ tool_calls[j].tool = CallOf(j).name
             /\ tool_calls[j].args = CallOf(j).arguments

\* This step appends the assistant message of a response.
ResponseAppended ==
    /\ Len(messages') = Len(messages) + 1
    /\ messages'[Len(messages')].role = "assistant"

\* The message's text holds both "<report>" and "</report>".
CarriesMarkerPair(m) ==
    Truthy(m.content) /\ Contains(m.content.s, OPEN) /\ Contains(m.content.s, CLOSE)

\* C25: a response with no tool calls and without the marker pair marks the
\* run complete if and only if finish_reason is "stop", step_count > 5 and the
\* text is longer than 1000 characters, and the draft appended is then the
\* whole text; a response that carries tool calls never completes the run.
C25_ImplicitCompletion ==
    [][ResponseAppended =>
         LET m == messages'[Len(messages')]
             implicit == /\ last_finish_reason' = "stop"
                         /\ step_count' > 5
                         /\ Truthy(m.content)
                         /\ StrLen(m.content.s) > 1000
         IN /\ has_tool_calls(m) => ~is_complete' /\ report_drafts' = report_drafts
            /\ (~has_tool_calls(m) /\ ~CarriesMarkerPair(m)) =>
                  /\ is_complete' <=> implicit
                  /\ report_drafts' = IF implicit THEN Append(report_drafts, m.content.s)
                                      ELSE report_drafts]_vars

\* Step 6 answered by more than 1000 characters holding one marker only, with
\* finish_reason "stop": the run is complete and the draft is the whole text.
C25_Witness ==
    /\ pc = "returned"
    /\ is_complete
    /\ step_count = 6
    /\ last_finish_reason = "stop"
    /\ LastMsg.content = Txt(<<OPEN, BLOCK>>)
    /\ report_drafts = <<<<OPEN, BLOCK>>>>

\* Step 5 answered by more than 1000 characters with finish_reason "stop": the
\* run is not complete.
C25_WitnessFifthStep ==
    /\ pc = "callback"
    /\ step_count = 5
    /\ last_finish_reason = "stop"
    /\ LastMsg.content = Txt(<<BLOCK, "OK">>)
    /\ ~is_complete
    /\ report_drafts = <<>>

\* A response with text and tool calls has been processed; the run goes on.
C25_WitnessToolCalls ==
    /\ pc = "callback"
    /\ LastMsg.role = "tool"
    /\ AssistantMsgs[Len(AssistantMsgs)].content = Txt(<<"OK">>)
    /\ ~is_complete
    /\ error = NoError

\* Control is inside run(), between its first statement and its return.
InsideRun == pc \in {"loop", "awaiting_model", "tools", "awaiting_tool", "callback", "extract", "broke"}

\* C26: an exception raised by the model call, by the tool dispatch, by the
\* evidence extraction or by the on_step callback is caught at the loop level,
\* recorded in state.error and ends the loop, after which run() returns the
\* state with that error; control never leaves run() any other way.
C26_ExceptionsEndTheLoop ==
    [][/\ (error = NoError /\ error' # NoError) => pc' = "broke"
       /\ pc = "broke" => (pc' = "returned" /\ error' = error /\ error # NoError)
       /\ InsideRun => (InsideRun' \/ pc' = "returned")]_vars

\* run() has returned after the on_step callback raised in the second step.
C26_Witness ==
    /\ pc = "returned"
    /\ error = JSONDecodeError
    /\ on_step_calls = 2
    /\ step_count = 2
    /\ max_steps = 3

\* run() has returned after the model call raised.
C26_WitnessModel == pc = "returned" /\ error = ProviderError /\ step_count = 2 /\ max_steps = 3

\* run() has returned after the dispatch of a tool call raised.
C26_WitnessDispatch ==
    /\ pc = "returned"
    /\ error = TypeError
    /\ dispatches # <<>>
    /\ Len(tool_results) < Len(dispatches)

\* The last assistant message of the history has a tool message for each of
\* its tool calls.
LastStepAnswered ==
    \E i \in 1..Len(messages) :
        /\ messages[i].role = "assistant"
        /\ i + Len(messages[i].tool_calls) = Len(messages)
        /\ Answered(i)

\* How many times on_step has been called when a callback was supplied: once
\* per step begun, less the step under way and the step whose model call, tool
\* dispatch or extraction raised.
CallsDue ==
    IF pc \in {"awaiting_model", "tools", "awaiting_tool", "callback"}
       \/ error \notin {NoError, JSONDecodeError}
    THEN step_count - 1
    ELSE step_count

\* C27: a supplied on_step is called exactly once in every step that finishes
\* without exception, after all the tool messages of the step are appended and
\* after completion detection, and never in a step whose model call or tool
\* dispatch raised; in a run without error the calls number step_count.
C27_CallbackOncePerStep ==
    [][/\ on_step_calls' = (IF on_step = "None" THEN 0 ELSE CallsDue')
       /\ on_step_calls' # on_step_calls =>
            /\ on_step_calls' = on_step_calls + 1
            /\ pending = <<>>
            /\ LastStepAnswered
            /\ error = NoError
            /\ UNCHANGED <<messages, is_complete, report_drafts, step_count, tool_calls>>]_vars

\* Three steps, the second with a tool call, no error: three calls.
C27_Witness ==
    /\ pc = "returned"
    /\ on_step = "_on_step"
    /\ error = NoError
    /\ step_count = 3
    /\ on_step_calls = 3
    /\ Len(ToolMsgs) = 1
    /\ AssistantMsgs[2].tool_calls # <<>>

\* The dispatch raised in the second step: one call, made in the first step.
C27_WitnessDispatchRaised ==
    /\ pc = "returned"
    /\ on_step = "_on_step"
    /\ error = TypeError
    /\ step_count = 2
    /\ on_step_calls = 1

\* The run is driven by AgentRunner and its log holds a call whose argument
\* text is not JSON.
RunnerSawInvalidJson ==
    on_step = "_on_step" /\ \E i \in 1..Len(tool_calls) : InvalidJson(i)

\* C28: in a run driven by AgentRunner a tool call whose arguments are not
\* valid JSON is recovered locally: its error message is fed back as a tool
\* message, and the step's callback does not end the run with an error, so
\* the loop goes on to the next step.
C28_RunnerRecoversInvalidJson ==
    RunnerSawInvalidJson =>
        /\ \A i \in 1..Len(tool_calls) :
             InvalidJson(i) => ToolMsgs[i].role = "tool" /\ ~tool_results[i].success
        /\ error # JSONDecodeError

\* The fragment indexes received in the chunks read up to the i-th snapshot.
IndexesSeen(i) ==
    LET fragments == AllFragments(SubSeq(chunks, 1, yields[i].at))
    IN {fragments[k].index : k \in 1..Len(fragments)}

\* C29: every yielded snapshot is cumulative for tool calls: its tool_calls
\* hold exactly one entry per distinct fragment index seen so far, the number
\* of entries never decreases from one snapshot to the next, and the arguments
\* of each entry extend, as a prefix, the arguments the same index had in the
\* previous snapshot.
C29_SnapshotsCumulative ==
    /\ \A i \in 1..Len(yields) :
         LET calls_i == yields[i].tool_calls IN
         /\ {calls_i[k].index : k \in 1..Len(calls_i)} = IndexesSeen(i)
         /\ Len(calls_i) = Cardinality(IndexesSeen(i))
    /\ \A i \in 1..(Len(yields) - 1) :
         LET before == yields[i].tool_calls
             after == yields[i + 1].tool_calls
         IN /\ Len(before) <= Len(after)
            /\ \A k \in 1..Len(before) :
                 \E l \in 1..Len(after) :
                    /\ after[l].index = before[k].index
                    /\ IsPrefix(before[k].arguments, after[l].arguments)

\* Three snapshots: index 0 with arguments "x", then index 1 joins, then the
\* arguments of index 0 grow to "xy".
C29_Witness ==
    /\ Len(yields) = 3
    /\ Len(yields[1].tool_calls) = 1
    /\ yields[1].tool_calls[1].index = 0
    /\ yields[1].tool_calls[1].arguments = <<"x">>
    /\ Len(yields[2].tool_calls) = 2
    /\ yields[2].tool_calls[1].arguments = <<"x">>
    /\ Len(yields[3].tool_calls) = 2
    /\ yields[3].tool_calls[1].arguments = <<"x", "y">>

\* One of the 5 most recent records of the log is a reflect or a
\* cross_validate invocation.
RecentlyReflected(log) ==
    \E i \in 1..Len(log) : i > Len(log) - 5 /\ log[i].tool \in {"reflect", "cross_validate"}

\* C30: when the phase is inferred at a step count above 2 and one of the 5
\* most recent tool invocations is reflect or cross_validate, the phase is
\* reflection, whatever file-writing, editing or retrieval calls are among
\* them; at a step count of 2 or less the phase is planning, whatever the log.
C30_PhaseInference ==
    [][step_count' # step_count =>
         /\ step_count' <= 2 => current_phase' = "planning"
         /\ (step_count' > 2 /\ RecentlyReflected(tool_calls')) =>
               current_phase' = "reflection"]_vars

\* Step 3 with cross_validate as the oldest of the 5 most recent invocations,
\* followed by a report written and a search: the phase is reflection.
C30_Witness ==
    /\ pc = "phased"
    /\ step_count = 3
    /\ Len(tool_calls) = 6
    /\ tool_calls[1].tool = "web_search"
    /\ tool_calls[2].tool = "cross_validate"
    /\ \A i \in 3..5 : tool_calls[i].tool = "file_write" /\ tool_calls[i].args = ARGS_REPORT
    /\ tool_calls[6].tool = "web_search"
    /\ current_phase = "reflection"

\* Step 3 with reflect as the sixth most recent invocation only: the phase is
\* not reflection.
C30_WitnessOutsideWindow ==
    /\ pc = "phased"
    /\ step_count = 3
    /\ Len(tool_calls) = 6
    /\ tool_calls[1].tool = "reflect"
    /\ ~RecentlyReflected(tool_calls)
    /\ current_phase # "reflection"

\* Step 2 with reflect as the most recent invocation: the phase is planning.
C30_WitnessPlanning ==
    /\ pc = "phased"
    /\ step_count = 2
    /\ Len(tool_calls) >= 1
    /\ tool_calls[Len(tool_calls)].tool = "reflect"
    /\ current_phase = "planning"

\* The 5 most recent records of a log.
LastFive(log) == {i \in 1..Len(log) : i > Len(log) - 5}

\* A recent file_write or file_edit record whose own arguments mention "report".
ReportWritten(log) ==
    \E i \in LastFive(log) :
        /\ log[i].tool \in {"file_write", "file_edit"}
        /\ log[i].args \in {ARGS_REPORT, ARGS_TODO_REPORT}

\* A retrieval tool is among the 5 most recent records.
RecentlyRetrieved(log) ==
    \E i \in LastFive(log) : log[i].tool \in {"web_search", "web_browse", "batch_web_surfer"}

\* C31: the tool log makes the inferred phase report_generation only when a
\* recent file_write or file_edit record itself mentions "report" in its
\* arguments; another recent call mentioning it beside a file_write or
\* file_edit that does not is not enough.  (Past 70 % of max_steps without a
\* recent retrieval call, report_generation comes from the step count.)
C31_ReportPhaseNeedsReportWrite ==
    [][(/\ step_count' # step_count
        /\ current_phase' = "report_generation"
        /\ RecentlyRetrieved(tool_calls') \/ 10 * step_count' <= 7 * max_steps)
       => ReportWritten(tool_calls')]_vars

\* None of the 5 most recent records is a reflection, file-writing, editing
\* or retrieval invocation.
NoRuleTool(log) ==
    \A i \in LastFive(log) :
        log[i].tool \notin {"reflect", "cross_validate", "file_write", "file_edit",
                            "web_search", "web_browse", "batch_web_surfer"}

\* C32: at a step count above 2, when none of the 5 most recent invocations
\* is a reflection, file-writing, editing or retrieval tool, the phase is
\* report_generation if 10 * step_count > 7 * max_steps and
\* information_seeking otherwise; when a retrieval tool is among them and
\* neither the reflection rule nor the report rule applies, the phase is
\* information_seeking even past that threshold.
C32_LateRunAndRetrieval ==
    [][(step_count' # step_count /\ step_count' > 2) =>
         /\ NoRuleTool(tool_calls') =>
               current_phase' = IF 10 * step_count' > 7 * max_steps
                                THEN "report_generation" ELSE "information_seeking"
         /\ (/\ RecentlyRetrieved(tool_calls')
             /\ ~RecentlyReflected(tool_calls')
             /\ ~ReportWritten(tool_calls')) => current_phase' = "information_seeking"]_vars

\* C33: when every model call, tool execution and callback invocation returns
\* or raises, run() returns whatever the model does, and it has issued at most
\* max_steps model requests.
C33_RunTerminates == <>(pc \in {"returned", "finished"}) /\ [](model_requests <= max_steps)

\* A model that requested tools at every step: run() returned at max_steps.
C33_Witness ==
    /\ pc = "returned"
    /\ max_steps = 2
    /\ step_count = 2
    /\ model_requests = 2
    /\ ~is_complete
    /\ error = NoError
    /\ Len(AssistantMsgs) = 2
    /\ \A i \in 1..2 : AssistantMsgs[i].tool_calls # <<>>

\* A model that chatted at every step without a marker and never at length
\* with finish_reason "stop": run() returned at max_steps.
C33_WitnessChat ==
    /\ pc = "returned"
    /\ profile = "chat"
    /\ step_count = max_steps
    /\ model_requests = max_steps
    /\ ~is_complete
    /\ error = NoError
    /\ LastMsg.content = Txt(<<BLOCK, "OK">>)

\* The tool call whose result this step has handled: its name and whether it
\* succeeded.  No call at all is handled in a step that leaves both logs alone.
Handled ==
    IF Extracting THEN <<LastInput.name, LastInput.result.success>>
    ELSE IF Len(tool_calls') > Len(tool_calls)
         THEN <<tool_calls'[Len(tool_calls')].tool, tool_calls'[Len(tool_calls')].success>>
         ELSE <<"", FALSE>>

\* C34: evidence and claims are append-only; evidence changes only in a step
\* that handles a successful web_search, batch_web_surfer or web_browse call,
\* claims only in one that handles a successful cross_validate call; failed
\* calls, calls with malformed arguments, unknown tools and other tools leave
\* both unchanged.
C34_EvidenceOnlyFromSuccess ==
    [][/\ IsPrefix(evidence, evidence')
       /\ IsPrefix(claims, claims')
       /\ evidence' # evidence =>
            /\ Handled[1] \in {"web_search", "batch_web_surfer", "web_browse"}
            /\ Handled[2]
       /\ claims' # claims => Handled = <<"cross_validate", TRUE>>]_vars

\* A failed web_search, then a successful cross_validate: one claim, no
\* evidence.
C34_Witness ==
    /\ Len(extract_log) = 2
    /\ extract_log[1].name = "web_search"
    /\ ~extract_log[1].result.success
    /\ extract_log[2].name = "cross_validate"
    /\ extract_log[2].result.success
    /\ evidence = <<>>
    /\ Len(claims) = 1

\* A successful todo call, then a successful web_browse: one evidence entry,
\* no claim.
C34_WitnessOtherTool ==
    /\ Len(extract_log) = 2
    /\ extract_log[1].name = "todo"
    /\ extract_log[1].result.success
    /\ extract_log[2].name = "web_browse"
    /\ Len(evidence) = 1
    /\ claims = <<>>

\* C35: report_drafts never holds more than one entry: the loop stores a draft
\* only in the step that sets is_complete, and the fallback after the loop
\* adds one only when none is stored.
C35_AtMostOneDraft ==
    [][/\ Len(report_drafts') <= 1
       /\ report_drafts' # report_drafts =>
            /\ report_drafts = <<>>
            /\ \/ ~is_complete /\ is_complete' /\ pc' = "callback"
               \/ pc' = "returned" /\ is_complete' = is_complete]_vars

\* The second step completed the run through the markers; run() returned with
\* that one draft.
C35_Witness ==
    /\ pc = "returned"
    /\ is_complete
    /\ step_count = 2
    /\ Len(report_drafts) = 1
    /\ Len(AssistantMsgs) = 2
    /\ Truthy(AssistantMsgs[1].content)
    /\ report_drafts[1] # AssistantMsgs[1].content.s

\* The budget ran out after two steps with text; the fallback stored one draft.
C35_WitnessFallback ==
    /\ pc = "returned"
    /\ ~is_complete
    /\ step_count = 2
    /\ Len(AssistantMsgs) = 2
    /\ Truthy(AssistantMsgs[1].content)
    /\ Truthy(AssistantMsgs[2].content)
    /\ Len(report_drafts) = 1

\* C36: every yielded snapshot is an independent value: the id, name and
\* arguments of the tool calls a consumer saw in it when it was yielded are
\* what the consumer still reads in it after later fragments are processed.
C36_SnapshotsIndependent ==
    \A i \in 1..Len(yields) :
        \A k \in 1..Len(yields[i].tool_calls) :
            /\ HeldToolCalls(i)[k].id = yields[i].tool_calls[k].id
            /\ HeldToolCalls(i)[k].name = yields[i].tool_calls[k].name
            /\ HeldToolCalls(i)[k].arguments = yields[i].tool_calls[k].arguments

\* C38: across the step callbacks of a run every entry of state.tool_calls is
\* recorded as a tool event exactly once and in log order: when _on_step
\* returns, tool_event_count is the length of the log, as many tool events
\* have been created, and the events are the entries of the log in its order.
C38_ToolEventsOnce ==
    [][(pc = "callback" /\ on_step = "_on_step" /\ pc' = "loop")
       => /\ tool_event_count' = Len(tool_calls')
          /\ Len(tool_events') = tool_event_count'
          /\ tool_events' = tool_calls']_vars

\* Two callbacks have returned, each having recorded the call of its own step.
C38_Witness ==
    /\ pc = "loop"
    /\ on_step = "_on_step"
    /\ on_step_calls = 2
    /\ tool_event_count = 2
    /\ Len(tool_events) = 2
    /\ tool_events[1].timestamp = 1
    /\ tool_events[2].timestamp = 2

\* C37: once delete_run has set a RUNNING run's persisted status to
\* CANCELLED, the persisted status is never RUNNING or SUCCEEDED again,
\* whatever execute_research_run and the runner write afterwards.
C37_CancelledStays ==
    cancelled => run_status \notin {"running", "succeeded"}

\* C39: every websocket registered in a run's connection set is in the set
\* of all connections, and a websocket dropped from the set of all
\* connections after a failed send receives no later broadcast of its run.
C39_RunConnectionsRegistered ==
    /\ \A r \in RunIds : run_connections[r] \subseteq all_connections
    /\ late_sends = {}
====
